---- MODULE Spec2Model ----
(***************************************************************************)
(* A model of the core of the bittensor client: the AsyncSubtensor facade  *)
(* (bittensor/core/async_subtensor.py), its block-reference resolution,    *)
(* its extrinsic helper and its weight-setting operations.                 *)
(*                                                                         *)
(* Three specifications share the variables:                               *)
(*   SpecBlock   - the read operations and their (block, block_hash,       *)
(*                 reuse_block) triple, each call one atomic action;       *)
(*   SpecSend    - one call of sign_and_send_extrinsic, step by step;      *)
(*   SpecWeights - commit_weights, reveal_weights and set_weights run by   *)
(*                 concurrent tasks of one event loop, interleaved at      *)
(*                 their awaits.                                           *)
(***************************************************************************)
EXTENDS Integers, Sequences, FiniteSets, TLC

VARIABLES
    head,       \* number of the chain's head block
    chain,      \* chain[n]: the storage at block n (meaningful for n <= head)
    last,       \* the transport's last_block_hash
    call,       \* SpecBlock: the last facade call and its arguments
    ret,        \* SpecBlock: what that call returned or raised
    rpcs,       \* SpecBlock: the RPCs that call issued, in order
    snd,        \* SpecSend: the running sign_and_send_extrinsic call
    io,         \* SpecSend: the I/O that call has done, in order
    subnet,     \* SpecWeights: the subnet's storage at the chain head
    tasks,      \* SpecWeights: each task's running facade call
    pool,       \* SpecWeights: the extrinsics the chain holds
    cache       \* SpecSync: the lru_cache of Subtensor.get_block_hash

vars == <<head, chain, last, call, ret, rpcs, snd, io, subnet, tasks, pool, cache>>

blockVars == <<head, chain, last, call, ret, rpcs>>
sendVars == <<snd, io>>
weightVars == <<subnet, tasks, pool>>

\* ------------------------------------------------------------------ bounds

\* Highest block number the chain reaches.
MaxBlock == 2

\* Longest endpoint string, in characters.
MaxUrlLen == 5

\* ------------------------------------------------------------------ values

\* Python values are tagged pairs, so that None, 0 and "" stay distinct.
None == <<"None", 0>>
Num(n) == <<"int", n>>
\* The hash of block n.
Hash(n) == <<"hash", n>>
EmptyStr == <<"str", 0>>
Bool(b) == <<"bool", IF b THEN 1 ELSE 0>>
\* A str given by its characters; a host name, port or network name counts
\* as one character.
Text(s) == <<"text", s>>
\* A non-empty dict {address: value}.
Dict(f) == <<"dict", f>>

\* bool(x) of Python.
Truthy(v) ==
    CASE v[1] = "None" -> FALSE
      [] v[1] = "int" -> v[2] # 0
      [] v[1] = "str" -> FALSE
      [] v[1] = "hash" -> TRUE
      [] v[1] = "bool" -> v[2] = 1
      [] v[1] = "dict" -> TRUE
      [] v[1] = "text" -> v[2] # <<>>

B2N(b) == IF b THEN 1 ELSE 0

Return(v) == [kind |-> "return", exc |-> "", val |-> v]
Raise(e) == [kind |-> "raise", exc |-> e, val |-> None]

\* A call in progress: the transport state it reads and changes, and the RPCs
\* it has issued. hexnum is what the node answers when chain_getBlockHash is
\* given a 32-byte hex string where a block number is expected: "null" or "error".
Ctx(h, c, l, hx) == [head |-> h, chain |-> c, last |-> l, rpcs |-> <<>>, hexnum |-> hx]
Rpc(c, method, at) == [c EXCEPT !.rpcs = Append(@, <<method, at>>)]
Out(c, r) == [ctx |-> c, ret |-> r]

\* ------------------------------------------------------- the chain's storage

Addresses == {"a1", "a2"}

\* What one block can hold for the one subnet and hotkey the model follows:
\* System.Account[a].data.free and TotalColdkeyStake[a] (None: no entry),
\* NetworksAdded, Tempo, Uids[netuid, hotkey] (None: not registered),
\* CommitRevealWeightsEnabled, LastUpdate[netuid][uid] and WeightsSetRateLimit.
BlockStates ==
    { [free |-> [a \in Addresses |-> IF a = "a1" THEN None ELSE Num(5)],
       stake |-> [a \in Addresses |-> IF a = "a1" THEN Num(2) ELSE None],
       exists |-> Bool(TRUE), tempo |-> Num(360), uid |-> Num(0),
       commit_reveal |-> Bool(TRUE), last_update |-> Num(0), rate_limit |-> Num(0)],
      [free |-> [a \in Addresses |-> IF a = "a1" THEN Num(7) ELSE Num(5)],
       stake |-> [a \in Addresses |-> Num(4)],
       exists |-> Bool(FALSE), tempo |-> None, uid |-> None,
       commit_reveal |-> Bool(FALSE), last_update |-> Num(0), rate_limit |-> Num(0)],
      [free |-> [a \in Addresses |-> Num(9)],
       stake |-> [a \in Addresses |-> None],
       exists |-> Bool(TRUE), tempo |-> Num(100), uid |-> None,
       commit_reveal |-> Bool(FALSE), last_update |-> Num(1), rate_limit |-> Num(0)] }

GenesisState == CHOOSE s \in BlockStates : Truthy(s.exists) /\ s.uid # None

\* The lru_cache of a Subtensor that has looked nothing up.
NoCache == <<>>

\* The chain holds nothing that was submitted.
NoPool == [pending |-> {}, commit_inblock |-> FALSE]

\* The block a hash names.
BlockOf(h) == h[2]

\* ------------------------------------------- the transport (spec 4.D, 4.F)

\* chain_getHead: the hash of the head, cached as last_block_hash.
substrate_get_chain_head(c) ==
    Out([Rpc(c, "chain_getHead", None) EXCEPT !.last = Hash(c.head)],
        Return(Hash(c.head)))

\* chain_getBlockHash(n): null for a block the chain does not have.
substrate_get_block_hash(c, block_id) ==
    LET c1 == Rpc(c, "chain_getBlockHash", block_id)
    IN  IF block_id[1] = "int"
        THEN Out(c1, Return(IF block_id[2] \in 0..c.head
                            THEN Hash(block_id[2]) ELSE None))
        ELSE IF c.hexnum = "null"
             THEN Out(c1, Return(None))
             ELSE Out(c1, Raise("SubstrateRequestException"))

\* The block a storage query is made at: the given hash, else the last one when
\* it is to be reused, else the head.
substrate_resolve(c, block_hash, reuse_block_hash) ==
    IF Truthy(block_hash) THEN Out(c, Return(block_hash))
    ELSE IF reuse_block_hash /\ c.last # None THEN Out(c, Return(c.last))
    ELSE substrate_get_chain_head(c)

\* x = await v; F(x): the awaited value is computed once.
Await(v, F(_)) == CHOOSE y \in {F(x) : x \in {v}} : TRUE

\* substrate.query(module, storage_function, params, block_hash, reuse_block_hash)
substrate_query(c, item, block_hash, reuse_block_hash) ==
    Await(substrate_resolve(c, block_hash, reuse_block_hash), LAMBDA r :
        Out(Rpc(r.ctx, "state_getStorage", r.ret.val),
            Return(c.chain[BlockOf(r.ret.val)][item])))

\* substrate.query_multi(storage_keys, block_hash): one value per key.
substrate_query_multi(c, item, addresses, block_hash) ==
    Await(substrate_resolve(c, block_hash, FALSE), LAMBDA r :
        Out(Rpc(r.ctx, "state_queryStorageAt", r.ret.val),
            Return(Dict([a \in addresses |-> c.chain[BlockOf(r.ret.val)][item][a]]))))

\* ---------------------------------------------------- the facade's reads

\* AsyncSubtensor.get_block_hash
get_block_hash(c, block) ==
    IF Truthy(block)
    THEN substrate_get_block_hash(c, block)
    ELSE substrate_get_chain_head(c)

\* How many of the three block references are truthy.
TruthyCount(block, block_hash, reuse_block) ==
    B2N(Truthy(block)) + B2N(Truthy(block_hash)) + B2N(reuse_block)

\* determine_block_hash with its check comparing against 2 instead of 1.
determine_block_hash_Lax(c, block, block_hash, reuse_block) ==
    IF TruthyCount(block, block_hash, reuse_block) > 2
    THEN Out(c, Raise("ValueError"))
    ELSE IF Truthy(block_hash) THEN Out(c, Return(block_hash))
    ELSE IF Truthy(block) THEN get_block_hash(c, block)
    ELSE Out(c, Return(None))

\* determine_block_hash returning the given hash also for a block number.
determine_block_hash_NoLookup(c, block, block_hash, reuse_block) ==
    IF TruthyCount(block, block_hash, reuse_block) > 1
    THEN Out(c, Raise("ValueError"))
    ELSE IF Truthy(block_hash) THEN Out(c, Return(block_hash))
    ELSE Out(c, Return(None))

\* AsyncSubtensor.determine_block_hash
determine_block_hash(c, block, block_hash, reuse_block) ==
    IF TruthyCount(block, block_hash, reuse_block) > 1
    THEN Out(c, Raise("ValueError"))
    ELSE IF Truthy(block_hash) THEN Out(c, Return(block_hash))
    ELSE IF Truthy(block) THEN get_block_hash(c, block)
    ELSE Out(c, Return(None))

\* The stored values as they are, None where the account is absent.
OrZero_AsStored(d) == d

\* Balance(value["data"]["free"]) and Balance.from_rao(item or 0): rao, 0 for
\* a missing entry.
OrZero(d) == Dict([a \in DOMAIN d[2] |-> IF Truthy(d[2][a]) THEN d[2][a] ELSE Num(0)])

\* AsyncSubtensor.get_balances
get_balances(c, addresses, block, block_hash, reuse_block) ==
    Await(IF reuse_block THEN Out(c, Return(c.last))
          ELSE IF ~Truthy(block_hash) THEN get_block_hash(c, None)
          ELSE determine_block_hash(c, block, block_hash, reuse_block), LAMBDA r :
        IF r.ret.kind = "raise" THEN r
        ELSE Await(substrate_query_multi(r.ctx, "free", addresses, r.ret.val), LAMBDA q :
                Out(q.ctx, Return(OrZero(q.ret.val)))))

\* AsyncSubtensor.get_total_stake_for_coldkey
get_total_stake_for_coldkey(c, addresses, block, block_hash, reuse_block) ==
    Await(IF reuse_block THEN Out(c, Return(c.last))
          ELSE IF ~Truthy(block_hash) THEN substrate_get_chain_head(c)
          ELSE determine_block_hash(c, block, block_hash, reuse_block), LAMBDA r :
        IF r.ret.kind = "raise" THEN r
        ELSE Await(substrate_query_multi(r.ctx, "stake", addresses, r.ret.val), LAMBDA q :
                Out(q.ctx, Return(OrZero(q.ret.val)))))

\* AsyncSubtensor.get_balance
get_balance(c, address, block, block_hash, reuse_block) ==
    Await(determine_block_hash(c, block, block_hash, reuse_block), LAMBDA r :
        IF r.ret.kind = "raise" THEN r
        ELSE Await(get_balances(r.ctx, {address}, None, r.ret.val, reuse_block), LAMBDA b :
                IF b.ret.kind = "raise" THEN b
                ELSE Out(b.ctx, Return(b.ret.val[2][address]))))

\* AsyncSubtensor.subnet_exists
subnet_exists(c, block, block_hash, reuse_block) ==
    Await(determine_block_hash(c, block, block_hash, reuse_block), LAMBDA r :
        IF r.ret.kind = "raise" THEN r
        ELSE substrate_query(r.ctx, "exists", r.ret.val, reuse_block))

\* AsyncSubtensor.get_hyperparameter: the resolved hash goes to subnet_exists
\* as its second positional parameter, which is block.
get_hyperparameter(c, param_name, block, block_hash, reuse_block) ==
    Await(determine_block_hash(c, block, block_hash, reuse_block), LAMBDA r :
        IF r.ret.kind = "raise" THEN r
        ELSE Await(subnet_exists(r.ctx, r.ret.val, None, reuse_block), LAMBDA e :
                IF e.ret.kind = "raise" THEN e
                ELSE IF ~Truthy(e.ret.val) THEN Out(e.ctx, Return(None))
                ELSE substrate_query(e.ctx, param_name, r.ret.val, reuse_block)))

\* AsyncSubtensor.tempo
tempo(c, block, block_hash, reuse_block) ==
    Await(determine_block_hash(c, block, block_hash, reuse_block), LAMBDA r :
        IF r.ret.kind = "raise" THEN r
        ELSE get_hyperparameter(r.ctx, "tempo", None, r.ret.val, reuse_block))

\* AsyncSubtensor.get_uid_for_hotkey_on_subnet
get_uid_for_hotkey_on_subnet(c, block, block_hash, reuse_block) ==
    Await(determine_block_hash(c, block, block_hash, reuse_block), LAMBDA r :
        IF r.ret.kind = "raise" THEN r
        ELSE substrate_query(r.ctx, "uid", r.ret.val, reuse_block))

\* substrate.get_block_number(None): the number of the head (spec 4.F).
substrate_get_block_number(c) ==
    Out(Rpc(c, "chain_getHeader", None), Return(Num(c.head)))

\* AsyncSubtensor.get_current_block
get_current_block(c) == substrate_get_block_number(c)

\* commit_reveal_enabled answering the opposite.
commit_reveal_enabled_Negated(c, block, block_hash, reuse_block) ==
    Await(determine_block_hash(c, block, block_hash, reuse_block), LAMBDA r :
        IF r.ret.kind = "raise" THEN r
        ELSE Await(get_hyperparameter(r.ctx, "commit_reveal", None, r.ret.val,
                                      reuse_block), LAMBDA h :
                IF h.ret.kind = "raise" THEN h
                ELSE Out(h.ctx, Return(Bool(h.ret.val # Bool(TRUE))))))

\* AsyncSubtensor.commit_reveal_enabled: True if call is True else False
commit_reveal_enabled(c, block, block_hash, reuse_block) ==
    Await(determine_block_hash(c, block, block_hash, reuse_block), LAMBDA r :
        IF r.ret.kind = "raise" THEN r
        ELSE Await(get_hyperparameter(r.ctx, "commit_reveal", None, r.ret.val,
                                      reuse_block), LAMBDA h :
                IF h.ret.kind = "raise" THEN h
                ELSE Out(h.ctx, Return(Bool(h.ret.val = Bool(TRUE))))))

\* AsyncSubtensor.weights_rate_limit
weights_rate_limit(c, block, block_hash, reuse_block) ==
    Await(determine_block_hash(c, block, block_hash, reuse_block), LAMBDA r :
        IF r.ret.kind = "raise" THEN r
        ELSE get_hyperparameter(r.ctx, "rate_limit", None, r.ret.val, reuse_block))

\* blocks_since_last_update subtracting the other way round.
blocks_since_last_update_Swapped(c) ==
    Await(get_hyperparameter(c, "last_update", None, None, FALSE), LAMBDA h :
        IF h.ret.kind = "raise" \/ h.ret.val = None THEN h
        ELSE Await(get_current_block(h.ctx), LAMBDA b :
                Out(b.ctx, Return(Num(h.ret.val[2] - b.ret.val[2])))))

\* AsyncSubtensor.blocks_since_last_update: None for a subnet that does not
\* exist, else get_current_block() - LastUpdate[uid].
blocks_since_last_update(c) ==
    Await(get_hyperparameter(c, "last_update", None, None, FALSE), LAMBDA h :
        IF h.ret.kind = "raise" \/ h.ret.val = None THEN h
        ELSE Await(get_current_block(h.ctx), LAMBDA b :
                Out(b.ctx, Return(Num(b.ret.val[2] - h.ret.val[2])))))

\* A list of netuids.
List(S) == <<"list", S>>

\* substrate.query_map of IsNetworkMember for the hotkey: the subnets where it
\* is a member (the one subnet of the model, when it has a uid there).
substrate_query_map(c, block_hash, reuse_block_hash) ==
    Await(substrate_resolve(c, block_hash, reuse_block_hash), LAMBDA r :
        Out(Rpc(r.ctx, "state_getKeysPaged", r.ret.val),
            Return(List(IF c.chain[BlockOf(r.ret.val)].uid # None THEN {1} ELSE {}))))

\* AsyncSubtensor.get_netuids_for_hotkey
get_netuids_for_hotkey(c, block, block_hash, reuse_block) ==
    Await(determine_block_hash(c, block, block_hash, reuse_block), LAMBDA r :
        IF r.ret.kind = "raise" THEN r
        ELSE substrate_query_map(r.ctx, r.ret.val, reuse_block))

\* AsyncSubtensor.is_hotkey_registered_any
is_hotkey_registered_any(c, block, block_hash, reuse_block) ==
    Await(get_netuids_for_hotkey(c, block, block_hash, reuse_block), LAMBDA n :
        IF n.ret.kind = "raise" THEN n
        ELSE Out(n.ctx, Return(Bool(Cardinality(n.ret.val[2]) > 0))))

\* AsyncSubtensor.is_hotkey_registered_on_subnet
is_hotkey_registered_on_subnet(c, block, block_hash, reuse_block) ==
    Await(get_uid_for_hotkey_on_subnet(c, block, block_hash, reuse_block), LAMBDA u :
        IF u.ret.kind = "raise" THEN u
        ELSE Out(u.ctx, Return(Bool(u.ret.val # None))))

\* AsyncSubtensor.is_hotkey_registered: netuid defaults to None
is_hotkey_registered(c, netuid, block, block_hash, reuse_block) ==
    IF netuid = None
    THEN is_hotkey_registered_any(c, block, block_hash, reuse_block)
    ELSE is_hotkey_registered_on_subnet(c, block, block_hash, reuse_block)

\* ------------------------------------------------ the synchronous facade

\* @lru_cache(maxsize=128)
maxsize == 128

\* An argument the caller leaves out.
Missing == <<"missing", 0>>

\* What a method of Subtensor gives: the transport after it, what it returned
\* or raised, and the cache after it.
SyncOut(c, r, k) == [ctx |-> c, ret |-> r, cache |-> k]

\* execute_coroutine: the coroutine runs to its end on the event loop.
execute_coroutine(o, k) == SyncOut(o.ctx, o.ret, k)

\* The place of key in the cache k (least recently used first), 0 if absent.
CacheIndex(k, key) ==
    IF \E i \in 1..Len(k) : k[i].key = key
    THEN CHOOSE i \in 1..Len(k) : k[i].key = key
    ELSE 0

\* A hit makes the entry the most recently used.
Touch(k, i) == SubSeq(k, 1, i - 1) \o SubSeq(k, i + 1, Len(k)) \o <<k[i]>>

\* A miss stores the result, dropping the least recently used entry of a
\* full cache.
Store(k, key, val) ==
    IF Len(k) >= maxsize
    THEN Append(Tail(k), [key |-> key, val |-> val])
    ELSE Append(k, [key |-> key, val |-> val])

\* Subtensor.get_block_hash: lru_cache keyed by the argument, None included;
\* a call that raises stores nothing.
Subtensor_get_block_hash(c, k, block) ==
    IF CacheIndex(k, block) > 0
    THEN SyncOut(c, Return(k[CacheIndex(k, block)].val), Touch(k, CacheIndex(k, block)))
    ELSE Await(execute_coroutine(get_block_hash(c, block), k), LAMBDA o :
            IF o.ret.kind = "raise" THEN o
            ELSE SyncOut(o.ctx, o.ret, Store(k, block, o.ret.val)))

\* Subtensor.get_total_stake_for_coldkey: the first value of the dict
Subtensor_get_total_stake_for_coldkey(c, k, ss58_address, block) ==
    Await(execute_coroutine(
              get_total_stake_for_coldkey(c, {ss58_address}, block, None, FALSE), k),
          LAMBDA o :
            IF o.ret.kind = "raise" THEN o
            ELSE SyncOut(o.ctx, Return(o.ret.val[2][ss58_address]), k))

\* Subtensor.is_hotkey_registered(hotkey_ss58, netuid, block=None): netuid has
\* no default.
Subtensor_is_hotkey_registered(c, k, netuid, block) ==
    IF netuid = Missing THEN SyncOut(c, Raise("TypeError"), k)
    ELSE execute_coroutine(is_hotkey_registered(c, netuid, block, None, FALSE), k)

\* ------------------------------------------- sign_and_send_extrinsic

SignWithArgs == {"coldkey", "hotkey", "coldkeypub", "invalid"}

\* Every sign_with passes the check.
ValidSignWith_Any == SignWithArgs

\* The sign_with values the helper accepts.
ValidSignWith == {"coldkey", "hotkey", "coldkeypub"}

\* The dispatch errors and request errors of the model.
Errors == {"SubtensorModule.Error", "Invalid Transaction"}
\* Exceptions of the transport that are no SubstrateRequestException.
TransportErrors == {"ConnectionClosed"}

NoMessage == <<"", "">>
\* format_error_message(e)
format_error_message(e) == <<"format_error_message", e>>

\* What a call gives its caller: the tuple (success, message), or an exception.
Tuple(ok, msg) == [kind |-> "return", exc |-> "", success |-> ok, message |-> msg]
Throw(e) == [kind |-> "raise", exc |-> e, success |-> FALSE, message |-> NoMessage]
NoResult == [kind |-> "none", exc |-> "", success |-> FALSE, message |-> NoMessage]

\* What substrate.submit_extrinsic did: returned a receipt (success, error), or
\* raised exc with error.
Receipt(ok, e) == [kind |-> "return", exc |-> "", success |-> ok, error |-> e]
Failure(x, e) == [kind |-> "raise", exc |-> x, success |-> FALSE, error |-> e]
NoSubmit == [kind |-> "none", exc |-> "", success |-> FALSE, error |-> ""]

SubmitOutcomes ==
    {Receipt(TRUE, "")}
    \cup {Receipt(FALSE, e) : e \in Errors}
    \cup {Failure("SubstrateRequestException", e) : e \in Errors}
    \cup {Failure(x, "") : x \in TransportErrors}

\* The helper returns at once only when finalization is not awaited.
NoWait_FinalizationOnly(wait_for_inclusion, wait_for_finalization) ==
    ~wait_for_finalization

\* not wait_for_finalization and not wait_for_inclusion
NoWait(wait_for_inclusion, wait_for_finalization) ==
    ~wait_for_finalization /\ ~wait_for_inclusion

\* No exception of the submission is caught.
CaughtBySend_None == {}

\* except SubstrateRequestException
CaughtBySend == {"SubstrateRequestException"}

\* The try block of sign_and_send_extrinsic once submit_extrinsic has raised.
SubmitRaised(sub) ==
    IF sub.exc \in CaughtBySend
    THEN Tuple(FALSE, format_error_message(sub.error))
    ELSE Throw(sub.exc)

\* The end of the try block, once the receipt has been asked whether it succeeded.
Inspected(sub) ==
    IF sub.success THEN Tuple(TRUE, NoMessage)
    ELSE Tuple(FALSE, format_error_message(sub.error))

\* ------------------------------------ SpecSend: one call, step by step

NoSend == [pc |-> "idle", sign_with |-> "coldkey", wait_for_inclusion |-> FALSE,
           wait_for_finalization |-> FALSE, response |-> NoSubmit, result |-> NoResult]

SendUnchanged ==
    UNCHANGED <<head, chain, last, call, ret, rpcs, subnet, tasks, pool, cache>>

\* A caller calls sign_and_send_extrinsic.
Send_Call ==
    /\ snd.pc = "idle"
    /\ \E sw \in SignWithArgs, wi \in BOOLEAN, wf \in BOOLEAN :
        snd' = [NoSend EXCEPT !.pc = "validate", !.sign_with = sw,
                              !.wait_for_inclusion = wi, !.wait_for_finalization = wf]
    /\ io' = <<>>
    /\ SendUnchanged

\* if sign_with not in (...): raise AttributeError
Send_Validate ==
    /\ snd.pc = "validate"
    /\ snd' = IF snd.sign_with \notin ValidSignWith
              THEN [snd EXCEPT !.pc = "done", !.result = Throw("AttributeError")]
              ELSE [snd EXCEPT !.pc = "create"]
    /\ UNCHANGED io
    /\ SendUnchanged

\* extrinsic = await self.substrate.create_signed_extrinsic(...): outside the try.
Send_Create ==
    /\ snd.pc = "create"
    /\ io' = Append(io, "create_signed_extrinsic")
    /\ \/ snd' = [snd EXCEPT !.pc = "submit"]
       \/ \E x \in TransportErrors \cup {"SubstrateRequestException"} :
            snd' = [snd EXCEPT !.pc = "done", !.result = Throw(x)]
    /\ SendUnchanged

\* response = await self.substrate.submit_extrinsic(...), and the return that
\* follows it when nothing is awaited.
Send_Submit ==
    /\ snd.pc = "submit"
    /\ io' = Append(io, "submit_extrinsic")
    /\ \E sub \in SubmitOutcomes :
        snd' = IF sub.kind = "raise"
               THEN [snd EXCEPT !.pc = "done", !.response = sub,
                                !.result = SubmitRaised(sub)]
               ELSE IF NoWait(snd.wait_for_inclusion, snd.wait_for_finalization)
               THEN [snd EXCEPT !.pc = "done", !.response = sub,
                                !.result = Tuple(TRUE, NoMessage)]
               ELSE [snd EXCEPT !.pc = "inspect", !.response = sub]
    /\ SendUnchanged

\* if await response.is_success: ... ; return False, format_error_message(...)
Send_Inspect ==
    /\ snd.pc = "inspect"
    /\ io' = IF snd.response.success
             THEN Append(io, "is_success")
             ELSE io \o <<"is_success", "error_message">>
    /\ snd' = [snd EXCEPT !.pc = "done", !.result = Inspected(snd.response)]
    /\ SendUnchanged

\* The caller takes the result.
Send_TakeResult ==
    /\ snd.pc = "done"
    /\ snd' = NoSend
    /\ io' = <<>>
    /\ SendUnchanged

InitSend ==
    /\ head = 0
    /\ chain = [n \in 0..MaxBlock |-> GenesisState]
    /\ last = None
    /\ call = [op |-> "idle", addresses |-> {}, block |-> None, block_hash |-> None,
               reuse_block |-> FALSE]
    /\ ret = Return(None)
    /\ rpcs = <<>>
    /\ snd = NoSend
    /\ io = <<>>
    /\ subnet = GenesisState
    /\ tasks = <<>>
    /\ pool = NoPool
    /\ cache = NoCache

NextSend ==
    \/ Send_Call
    \/ Send_Validate
    \/ Send_Create
    \/ Send_Submit
    \/ Send_Inspect
    \/ Send_TakeResult

SpecSend == InitSend /\ [][NextSend]_vars

\* ------------------------------------------------ SpecBlock: the read calls

NoCall == [op |-> "idle", addresses |-> {}, block |-> None, block_hash |-> None,
           reuse_block |-> FALSE]

\* ------------------------------------------------------- neuron records

\* A NeuronInfo: the uid it holds and the block of its last update.
Neuron(uid, last_update) == <<"neuron", uid, last_update>>

\* NeuronInfo.get_null_neuron()
NullNeuron == Neuron(None, None)

\* substrate.rpc_request("neuronInfo_getNeuron", params, reuse_block_hash):
\* block_hash is the hash the caller appended to params, None when it appended
\* none. The node answers at that hash, else at the last hash when it is to be
\* reused, else at its head; the result is empty when the uid is not held there.
substrate_rpc_request_neuron(c, uid, block_hash, reuse_block_hash) ==
    LET at == IF Truthy(block_hash) THEN block_hash
              ELSE IF reuse_block_hash /\ c.last # None THEN c.last
              ELSE None
        s == c.chain[IF at = None THEN c.head ELSE BlockOf(at)]
    IN  Out(Rpc(c, "neuronInfo_getNeuron", at),
            Return(IF s.uid = uid THEN Neuron(s.uid, s.last_update) ELSE None))

\* AsyncSubtensor.get_neuron_for_pubkey_and_subnet
get_neuron_for_pubkey_and_subnet(c, block, block_hash, reuse_block) ==
    Await(determine_block_hash(c, block, block_hash, reuse_block), LAMBDA r :
        IF r.ret.kind = "raise" THEN r
        ELSE Await(substrate_query(r.ctx, "uid", r.ret.val, reuse_block), LAMBDA u :
            IF u.ret.val = None THEN Out(u.ctx, Return(NullNeuron))
            ELSE Await(substrate_rpc_request_neuron(u.ctx, u.ret.val, None,
                                                    reuse_block), LAMBDA j :
                IF j.ret.val = None THEN Out(j.ctx, Return(NullNeuron))
                ELSE j)))

\* AsyncSubtensor.neuron_for_uid
neuron_for_uid(c, uid, block, block_hash, reuse_block) ==
    IF uid = None THEN Out(c, Return(NullNeuron))
    ELSE Await(determine_block_hash(c, block, block_hash, reuse_block), LAMBDA r :
        IF r.ret.kind = "raise" THEN r
        ELSE LET h == IF reuse_block THEN r.ctx.last ELSE r.ret.val
             IN  Await(substrate_rpc_request_neuron(r.ctx, uid, h, reuse_block),
                       LAMBDA j :
                    IF j.ret.val = None THEN Out(j.ctx, Return(NullNeuron))
                    ELSE j))

\* The block arguments a caller passes: nothing, or the number of a block of
\* the chain (0 is a block number, and falsy).
BlockArgs == {None} \cup {Num(n) : n \in 0..head}
\* nothing, the empty string, or the hash of a block of the chain.
HashArgs == {None, EmptyStr} \cup {Hash(n) : n \in 0..head}
AddressArgs == {{"a1"}, {"a1", "a2"}}
HexOutcomes == {"null", "error"}

\* The facade is idle: the caller has taken the last result.
Idle == call.op = "idle"

\* A call made by an idle client, with what it returned and did.
Called(op, addresses, block, block_hash, reuse_block, o) ==
    /\ Idle
    /\ call' = [op |-> op, addresses |-> addresses, block |-> block,
                block_hash |-> block_hash, reuse_block |-> reuse_block]
    /\ ret' = o.ret
    /\ rpcs' = o.ctx.rpcs
    /\ last' = o.ctx.last
    /\ UNCHANGED <<head, chain, snd, io, subnet, tasks, pool, cache>>

Here(hx) == Ctx(head, chain, last, hx)

Do_determine_block_hash ==
    \E block \in BlockArgs, block_hash \in HashArgs, reuse_block \in BOOLEAN :
        Called("determine_block_hash", {}, block, block_hash, reuse_block,
               determine_block_hash(Here("null"), block, block_hash, reuse_block))

Do_get_block_hash ==
    \E block \in BlockArgs :
        Called("get_block_hash", {}, block, None, FALSE,
               get_block_hash(Here("null"), block))

Do_get_balances ==
    \E addresses \in AddressArgs, block \in BlockArgs, block_hash \in HashArgs,
       reuse_block \in BOOLEAN :
        Called("get_balances", addresses, block, block_hash, reuse_block,
               get_balances(Here("null"), addresses, block, block_hash, reuse_block))

Do_get_total_stake_for_coldkey ==
    \E addresses \in AddressArgs, block \in BlockArgs, block_hash \in HashArgs,
       reuse_block \in BOOLEAN :
        Called("get_total_stake_for_coldkey", addresses, block, block_hash, reuse_block,
               get_total_stake_for_coldkey(Here("null"), addresses, block, block_hash,
                                           reuse_block))

Do_get_balance ==
    \E address \in Addresses, block \in BlockArgs, block_hash \in HashArgs,
       reuse_block \in BOOLEAN :
        Called("get_balance", {address}, block, block_hash, reuse_block,
               get_balance(Here("null"), address, block, block_hash, reuse_block))

Do_subnet_exists ==
    \E block \in BlockArgs, block_hash \in HashArgs, reuse_block \in BOOLEAN :
        Called("subnet_exists", {}, block, block_hash, reuse_block,
               subnet_exists(Here("null"), block, block_hash, reuse_block))

Do_get_hyperparameter ==
    \E block \in BlockArgs, block_hash \in HashArgs, reuse_block \in BOOLEAN,
       hx \in HexOutcomes :
        Called("get_hyperparameter", {}, block, block_hash, reuse_block,
               get_hyperparameter(Here(hx), "tempo", block, block_hash, reuse_block))

Do_tempo ==
    \E block \in BlockArgs, block_hash \in HashArgs, reuse_block \in BOOLEAN,
       hx \in HexOutcomes :
        Called("tempo", {}, block, block_hash, reuse_block,
               tempo(Here(hx), block, block_hash, reuse_block))

Do_get_uid_for_hotkey_on_subnet ==
    \E block \in BlockArgs, block_hash \in HashArgs, reuse_block \in BOOLEAN :
        Called("get_uid_for_hotkey_on_subnet", {}, block, block_hash, reuse_block,
               get_uid_for_hotkey_on_subnet(Here("null"), block, block_hash, reuse_block))

Do_blocks_since_last_update ==
    Called("blocks_since_last_update", {}, None, None, FALSE,
           blocks_since_last_update(Here("null")))

Do_get_neuron_for_pubkey_and_subnet ==
    \E block \in BlockArgs, block_hash \in HashArgs, reuse_block \in BOOLEAN :
        Called("get_neuron_for_pubkey_and_subnet", {}, block, block_hash, reuse_block,
               get_neuron_for_pubkey_and_subnet(Here("null"), block, block_hash,
                                                reuse_block))

Do_neuron_for_uid ==
    \E block \in BlockArgs, block_hash \in HashArgs, reuse_block \in BOOLEAN :
        Called("neuron_for_uid", {}, block, block_hash, reuse_block,
               neuron_for_uid(Here("null"), Num(0), block, block_hash, reuse_block))

\* The caller takes the result; the client is idle again.
TakeResult ==
    /\ ~Idle
    /\ call' = NoCall
    /\ ret' = Return(None)
    /\ rpcs' = <<>>
    /\ UNCHANGED <<head, chain, last, snd, io, subnet, tasks, pool, cache>>

\* The chain produces its next block (between two calls: a call of this
\* specification is one step).
NewBlock ==
    /\ Idle
    /\ head < MaxBlock
    /\ \E s \in BlockStates :
        /\ head' = head + 1
        /\ chain' = [chain EXCEPT ![head + 1] = s]
    /\ UNCHANGED <<last, call, ret, rpcs, snd, io, subnet, tasks, pool, cache>>

InitBlock ==
    /\ head = 0
    /\ chain = [n \in 0..MaxBlock |-> GenesisState]
    /\ last = None
    /\ call = NoCall
    /\ ret = Return(None)
    /\ rpcs = <<>>
    /\ snd = NoSend
    /\ io = <<>>
    /\ subnet = GenesisState
    /\ tasks = <<>>
    /\ pool = NoPool
    /\ cache = NoCache

NextBlock ==
    \/ Do_determine_block_hash
    \/ Do_get_block_hash
    \/ Do_get_balances
    \/ Do_get_total_stake_for_coldkey
    \/ Do_get_balance
    \/ Do_subnet_exists
    \/ Do_get_hyperparameter
    \/ Do_tempo
    \/ Do_get_uid_for_hotkey_on_subnet
    \/ Do_blocks_since_last_update
    \/ Do_get_neuron_for_pubkey_and_subnet
    \/ Do_neuron_for_uid
    \/ TakeResult
    \/ NewBlock

SpecBlock == InitBlock /\ [][NextBlock]_vars

\* ----------------- SpecSync: the synchronous facade next to the async one

NetuidArgs == {Missing, None, Num(1)}

\* A call of the synchronous facade by an idle client.
SyncCalled(op, addresses, block, netuid, o) ==
    /\ Idle
    /\ call' = [op |-> op, addresses |-> addresses, block |-> block,
                netuid |-> netuid]
    /\ ret' = o.ret
    /\ rpcs' = o.ctx.rpcs
    /\ last' = o.ctx.last
    /\ cache' = o.cache
    /\ UNCHANGED <<head, chain, snd, io, subnet, tasks, pool>>

S_get_block_hash ==
    \E block \in BlockArgs :
        SyncCalled("Subtensor.get_block_hash", {}, block, None,
                   Subtensor_get_block_hash(Here("null"), cache, block))

S_get_total_stake_for_coldkey ==
    \E a \in Addresses, block \in BlockArgs :
        SyncCalled("Subtensor.get_total_stake_for_coldkey", {a}, block, None,
                   Subtensor_get_total_stake_for_coldkey(Here("null"), cache, a, block))

S_is_hotkey_registered ==
    \E netuid \in NetuidArgs, block \in BlockArgs :
        SyncCalled("Subtensor.is_hotkey_registered", {}, block, netuid,
                   Subtensor_is_hotkey_registered(Here("null"), cache, netuid, block))

NextSync ==
    \/ S_get_block_hash
    \/ S_get_total_stake_for_coldkey
    \/ S_is_hotkey_registered
    \/ Do_get_block_hash
    \/ TakeResult
    \/ NewBlock

InitSync == InitBlock
SpecSync == InitSync /\ [][NextSync]_vars

\* ------------------------------------- endpoints and configuration

ws == <<"w", "s", ":", "/", "/">>
wss == <<"w", "s", "s", ":", "/", "/">>

\* settings.NETWORKS and the entry points (spec 5)
NETWORKS == {"finney", "test", "archive", "local"}
FINNEY_ENTRYPOINT == Text(wss \o <<"entrypoint-finney.opentensor.ai", ":443">>)
FINNEY_TEST_ENTRYPOINT == Text(wss \o <<"test.finney.opentensor.ai", ":443">>)
ARCHIVE_ENTRYPOINT == Text(wss \o <<"archive.chain.opentensor.ai", ":443">>)
LOCAL_ENTRYPOINT == Text(ws \o <<"127.0.0.1", ":9944">>)
SUBVORTEX_ENTRYPOINT == Text(ws \o <<"subvortex", ".info", ":9944">>)

NETWORK_MAP(n) ==
    CASE n = "finney" -> FINNEY_ENTRYPOINT
      [] n = "test" -> FINNEY_TEST_ENTRYPOINT
      [] n = "archive" -> ARCHIVE_ENTRYPOINT
      [] n = "local" -> LOCAL_ENTRYPOINT

\* substrings_map, in the order of the dict
substrings_map ==
    << <<"entrypoint-finney.opentensor.ai", "finney", FINNEY_ENTRYPOINT>>,
       <<"test.finney.opentensor.ai", "test", FINNEY_TEST_ENTRYPOINT>>,
       <<"archive.chain.opentensor.ai", "archive", ARCHIVE_ENTRYPOINT>>,
       <<"subvortex", "subvortex", SUBVORTEX_ENTRYPOINT>>,
       <<"127.0.0.1", "local", LOCAL_ENTRYPOINT>>,
       <<"localhost", "local", LOCAL_ENTRYPOINT>> >>

\* substring in network
Contains(t, host) == \E i \in 1..Len(t[2]) : t[2][i] = host

\* The entries of substrings_map whose substring the string contains.
Matches(t) == {i \in 1..Len(substrings_map) : Contains(t, substrings_map[i][1])}

\* determine_chain_endpoint_and_network answering "unknown" for every string
\* that is not a network's name.
determine_chain_endpoint_and_network_NamesOnly(network) ==
    IF network = None THEN <<None, None>>
    ELSE IF \E n \in NETWORKS : network = Text(<<n>>)
    THEN <<network, NETWORK_MAP(network[2][1])>>
    ELSE <<Text(<<"unknown">>), network>>

\* AsyncSubtensor.determine_chain_endpoint_and_network
determine_chain_endpoint_and_network(network) ==
    IF network = None THEN <<None, None>>
    ELSE IF \E n \in NETWORKS : network = Text(<<n>>)
    THEN <<network, NETWORK_MAP(network[2][1])>>
    ELSE IF Matches(network) # {}
    THEN LET i == CHOOSE j \in Matches(network) : \A k \in Matches(network) : j <= k
         IN  <<Text(<<substrings_map[i][2]>>), substrings_map[i][3]>>
    ELSE <<Text(<<"unknown">>), network>>

\* endpoint_url[0:n]
Slice(t, n) == SubSeq(t[2], 1, IF Len(t[2]) < n THEN Len(t[2]) ELSE n)

\* networking.get_formatted_ws_endpoint_url
get_formatted_ws_endpoint_url(endpoint_url) ==
    IF endpoint_url = None THEN None
    ELSE IF Slice(endpoint_url, 6) # wss /\ Slice(endpoint_url, 5) # ws
    THEN Text(ws \o endpoint_url[2])
    ELSE endpoint_url

\* The candidates of setup_config: (check, value), in the order of the list.
Candidates(config) ==
    << <<Bool(config.is_set_chain_endpoint), config.chain_endpoint>>,
       <<Bool(config.is_set_network), config.network>>,
       <<config.chain_endpoint, config.chain_endpoint>>,
       <<config.network, config.network>> >>

\* AsyncSubtensor.setup_config: the loop over the candidates assigns network
\* for every candidate whose check is truthy and has no break.
setup_config(network, config) ==
    LET c == Candidates(config)
        T == {i \in 1..Len(c) : Truthy(c[i][1])}
        n == IF network # None THEN network
             ELSE IF T = {} THEN None
             ELSE c[CHOOSE i \in T : \A j \in T : j <= i][2]
        e == determine_chain_endpoint_and_network(n)
    IN  <<get_formatted_ws_endpoint_url(e[2]), e[1]>>

\* ----------------------- SpecConfig: the pure functions, applied to inputs

\* The strings of up to MaxUrlLen characters.
Strings(len) == UNION {[1..n -> {"w", "s", ":", "/", "x"}] : n \in 0..len}

\* Endpoints that name a host, with and without scheme and port.
HostStrings ==
    {pre \o <<h>> \o post :
        pre \in {<<>>, ws, wss, <<"x">>},
        h \in {substrings_map[i][1] : i \in 1..Len(substrings_map)},
        post \in {<<>>, <<":9944">>, <<"localhost">>}}

EndpointArgs ==
    {None} \cup {Text(t) : t \in Strings(MaxUrlLen) \cup HostStrings}
           \cup {Text(<<n>>) : n \in NETWORKS}

\* The values a config holds for subtensor.chain_endpoint and subtensor.network.
ConfigEndpoints == {None, FINNEY_ENTRYPOINT, Text(ws \o <<"x">>)}
ConfigNetworks == {None, Text(<<"finney">>), Text(<<"test">>)}

\* A config: is_set is true only of a value that is there.
Configs ==
    {c \in [is_set_chain_endpoint : BOOLEAN, chain_endpoint : ConfigEndpoints,
            is_set_network : BOOLEAN, network : ConfigNetworks] :
        /\ c.is_set_chain_endpoint => c.chain_endpoint # None
        /\ c.is_set_network => c.network # None}

NoConfig == [is_set_chain_endpoint |-> FALSE, chain_endpoint |-> None,
             is_set_network |-> FALSE, network |-> None]

\* A pure function applied by an idle caller: its arguments and its value.
Applied(op, network, config, v) ==
    /\ Idle
    /\ call' = [op |-> op, network |-> network, config |-> config]
    /\ ret' = Return(v)
    /\ UNCHANGED <<head, chain, last, rpcs, snd, io, subnet, tasks, pool, cache>>

Do_setup_config ==
    \E network \in {None, Text(<<"local">>), Text(<<"x">>)}, config \in Configs :
        Applied("setup_config", network, config, setup_config(network, config))

Do_determine_chain_endpoint_and_network ==
    \E network \in EndpointArgs :
        Applied("determine_chain_endpoint_and_network", network, NoConfig,
                determine_chain_endpoint_and_network(network))

Do_get_formatted_ws_endpoint_url ==
    \E endpoint_url \in EndpointArgs :
        Applied("get_formatted_ws_endpoint_url", endpoint_url, NoConfig,
                get_formatted_ws_endpoint_url(endpoint_url))

NextConfig ==
    \/ Do_setup_config
    \/ Do_determine_chain_endpoint_and_network
    \/ Do_get_formatted_ws_endpoint_url
    \/ TakeResult

InitConfig == InitBlock
SpecConfig == InitConfig /\ [][NextConfig]_vars

\* ------------------------------------------------ the weight operations

\* Largest max_retries a caller passes.
MaxRetries == 2

\* wallet.coldkeypub.ss58_address and wallet.hotkey.ss58_address
WalletColdkey == "a1"
WalletHotkey == "hk1"

\* The netuid the weight calls are made for.
Netuid == 1

\* A NumPy array of the elements s (List: a Python list of them).
NDArray(s) == <<"ndarray", s>>

\* list(x)
list(x) == List(x[2])

\* The uids, weights, salt and version_key a caller passes to commit_weights
\* and to reveal_weights; NoArgs where the call's arguments are not followed.
WeightArgs ==
    { [uids |-> List(<<0, 1>>), weights |-> List(<<10, 20>>),
       salt |-> List(<<7>>), version_key |-> 1],
      [uids |-> NDArray(<<0, 1>>), weights |-> NDArray(<<30, 0>>),
       salt |-> List(<<7, 8>>), version_key |-> 2] }
NoArgs == [uids |-> List(<<>>), weights |-> List(<<>>), salt |-> List(<<>>),
           version_key |-> 0]
ArgsOf(op, A) == IF op = "set_weights" THEN {NoArgs} ELSE A

\* The arguments of a caller whose arrays are not varied.
ListArgs == CHOOSE a \in WeightArgs : a.uids[1] = "list"

\* weight_utils.generate_weight_hash: a digest of the six fields, equal for
\* equal fields only; arrays and lists of the same elements hash alike.
generate_weight_hash(address, netuid, uids, values, salt, version_key) ==
    <<"weight_hash", address, netuid, uids[2], values[2], salt[2], version_key>>

\* commit_weights before its loop: the hash of the weights.
CommitHash(op, a) ==
    IF op = "commit_weights"
    THEN generate_weight_hash(WalletHotkey, Netuid, list(a.uids), list(a.weights),
                              a.salt, a.version_key)
    ELSE None

WeightOps == {"set_weights", "commit_weights", "reveal_weights"}

\* "No attempt made. Perhaps it is too soon to ... weights!"
NoAttempt == <<"No attempt made", "">>
\* "Hotkey ... not registered in subnet ..."
NotRegistered == <<"not registered", "">>

\* A task of the event loop: the facade call it runs and that call's locals.
\* sent holds the kinds of extrinsic the call has submitted, attempts counts
\* its calls of the extrinsic function, passed holds what each of them was
\* given to submit.
NoTask == [pc |-> "idle", op |-> "none", wait_for_inclusion |-> FALSE,
           max_retries |-> 0, retries |-> 0, success |-> FALSE,
           message |-> NoMessage, branch |-> "none", sent |-> {},
           attempts |-> 0, result |-> NoResult,
           args |-> NoArgs, commit_hash |-> None, passed |-> <<>>]

\* The transport as a call without block arguments sees it: every read is
\* made at the head, whose storage is subnet.
Now == Ctx(head, [n \in 0..MaxBlock |-> subnet], last, "null")

Finish(task, r) == [task EXCEPT !.pc = "done", !.result = r]

\* The extrinsic one attempt of the call submits.
Kind(task) ==
    CASE task.op = "commit_weights" -> "commit_weights"
      [] task.op = "reveal_weights" -> "reveal_weights"
      [] task.op = "set_weights" /\ task.branch = "cr" -> "commit_crv3_weights"
      [] OTHER -> "set_weights"

\* sign_and_send_extrinsic from its try block on, given what submit_extrinsic did.
sign_and_send_extrinsic(wait_for_inclusion, wait_for_finalization, sub) ==
    IF sub.kind = "raise" THEN SubmitRaised(sub)
    ELSE IF NoWait(wait_for_inclusion, wait_for_finalization)
         THEN Tuple(TRUE, NoMessage)
         ELSE Inspected(sub)

\* The rate limit test passing also when exactly weights_rate_limit blocks
\* have gone by.
RateLimitPassed_AtLeast(c) ==
    Await(blocks_since_last_update(c), LAMBDA b :
        Await(weights_rate_limit(b.ctx, None, None, FALSE), LAMBDA w :
            IF b.ret.val = None \/ w.ret.val = None
            THEN Out(w.ctx, Raise("TypeError"))
            ELSE Out(w.ctx, Return(Bool(b.ret.val[2] >= w.ret.val[2])))))

\* blocks_since_last_update(netuid, uid) > weights_rate_limit(netuid): a
\* TypeError when either is None.
RateLimitPassed(c) ==
    Await(blocks_since_last_update(c), LAMBDA b :
        Await(weights_rate_limit(b.ctx, None, None, FALSE), LAMBDA w :
            IF b.ret.val = None \/ w.ret.val = None
            THEN Out(w.ctx, Raise("TypeError"))
            ELSE Out(w.ctx, Return(Bool(b.ret.val[2] > w.ret.val[2])))))

\* The retry loop with its bound dropped.
RetryCondition_Unbounded(task, c) ==
    Out(c, Return(Bool(TRUE)))

\* while retries < max_retries (commit_weights, reveal_weights)
RetryCondition(task, c) ==
    Out(c, Return(Bool(task.retries < task.max_retries)))

\* The while condition of set_weights' commit-reveal branch: the rate limit is
\* read first.
CommitRevealCondition(task, c) ==
    Await(RateLimitPassed(c), LAMBDA r :
        IF r.ret.kind = "raise" THEN r
        ELSE Out(r.ctx, Return(Bool(/\ Truthy(r.ret.val)
                                    /\ task.retries < task.max_retries
                                    /\ ~task.success))))

\* The while condition of set_weights' legacy branch: retries is tested first.
LegacyCondition(task, c) ==
    IF ~(task.retries < task.max_retries) THEN Out(c, Return(Bool(FALSE)))
    ELSE Await(RateLimitPassed(c), LAMBDA r :
            IF r.ret.kind = "raise" THEN r
            ELSE Out(r.ctx, Return(Bool(Truthy(r.ret.val) /\ ~task.success))))

WhileCondition(task, c) ==
    CASE task.op \in {"commit_weights", "reveal_weights"} -> RetryCondition(task, c)
      [] task.op = "set_weights" /\ task.branch = "cr" -> CommitRevealCondition(task, c)
      [] OTHER -> LegacyCondition(task, c)

\* An attempt raised e: the commit-reveal branch of set_weights has no try;
\* the other loops log it and count the attempt.
Excepted(task, e) ==
    IF task.op = "set_weights" /\ task.branch = "cr"
    THEN Finish(task, Throw(e))
    ELSE [task EXCEPT !.retries = @ + 1, !.pc = "cond"]

\* An attempt returned r = (success, message): commit_weights and
\* reveal_weights break on success, set_weights tests its condition again.
Returned(task, r) ==
    LET u == [task EXCEPT !.success = r.success, !.message = r.message,
                          !.retries = @ + 1]
    IN  IF task.op \in {"commit_weights", "reveal_weights"} /\ r.success
        THEN Finish(u, Tuple(r.success, r.message))
        ELSE [u EXCEPT !.pc = "cond"]

\* The extrinsics whose inclusion sets LastUpdate of the hotkey's uid.
UpdatingKinds == {"set_weights", "commit_weights", "commit_crv3_weights"}

\* The chain includes an extrinsic of kind k in the head block.
Included(k) ==
    /\ pool' = [pending |-> pool.pending \ {k},
                commit_inblock |-> pool.commit_inblock \/ k = "commit_weights"]
    /\ subnet' = IF k \in UpdatingKinds
                 THEN [subnet EXCEPT !.last_update = Num(head)]
                 ELSE subnet

WUnchanged == UNCHANGED <<chain, call, ret, rpcs, snd, io, cache>>

\* A task calls set_weights, commit_weights or reveal_weights with arguments
\* of A.
W_CallWith(t, A) ==
    /\ tasks[t].pc = "idle"
    /\ \E op \in WeightOps, wi \in BOOLEAN, mr \in 0..MaxRetries :
       \E a \in ArgsOf(op, A) :
        tasks' = [tasks EXCEPT ![t] =
                    [NoTask EXCEPT !.op = op, !.wait_for_inclusion = wi,
                                   !.max_retries = mr,
                                   !.args = a, !.commit_hash = CommitHash(op, a),
                                   !.pc = IF op = "set_weights" THEN "uid" ELSE "cond",
                                   !.message = IF op = "set_weights" THEN NoMessage
                                               ELSE NoAttempt]]
    /\ UNCHANGED <<head, last, subnet, pool>>
    /\ WUnchanged

\* The call of a caller whose arrays are not varied.
W_Call(t) == W_CallWith(t, {ListArgs})

\* The call of a caller passing lists or NumPy arrays.
R_Call(t) == W_CallWith(t, WeightArgs)

\* set_weights: uid := get_uid_for_hotkey_on_subnet(...); None returns
\* (False, "Hotkey ... not registered ...").
SW_Uid(t) ==
    /\ tasks[t].pc = "uid"
    /\ \E o \in {get_uid_for_hotkey_on_subnet(Now, None, None, FALSE)} :
           /\ last' = o.ctx.last
           /\ tasks' = [tasks EXCEPT ![t] =
                          IF o.ret.val = None
                          THEN Finish(@, Tuple(FALSE, NotRegistered))
                          ELSE [@ EXCEPT !.pc = "enabled"]]
    /\ UNCHANGED <<head, subnet, pool>>
    /\ WUnchanged

\* set_weights: if (await self.commit_reveal_enabled(netuid=netuid)) is True
SW_Enabled(t) ==
    /\ tasks[t].pc = "enabled"
    /\ \E o \in {commit_reveal_enabled(Now, None, None, FALSE)} :
           /\ last' = o.ctx.last
           /\ tasks' = [tasks EXCEPT ![t] =
                          [@ EXCEPT !.branch = IF o.ret.val = Bool(TRUE)
                                               THEN "cr" ELSE "legacy",
                                    !.message = NoAttempt,
                                    !.pc = "cond"]]
    /\ UNCHANGED <<head, subnet, pool>>
    /\ WUnchanged

\* The while condition of the call's loop; the loop's exit returns
\* (success, message).
W_Cond(t) ==
    /\ tasks[t].pc = "cond"
    /\ \E o \in {WhileCondition(tasks[t], Now)} :
           /\ last' = o.ctx.last
           /\ tasks' = [tasks EXCEPT ![t] =
                          IF o.ret.kind = "raise" THEN Finish(@, Throw(o.ret.exc))
                          ELSE IF Truthy(o.ret.val) THEN [@ EXCEPT !.pc = "try"]
                          ELSE Finish(@, Tuple(@.success, @.message))]
    /\ UNCHANGED <<head, subnet, pool>>
    /\ WUnchanged

\* Every attempt hashing the weights again, with a salt of its own.
Passed_PerAttempt(task) ==
    CASE task.op = "commit_weights" ->
            generate_weight_hash(WalletHotkey, Netuid, list(task.args.uids),
                                 list(task.args.weights),
                                 List(Append(task.args.salt[2], task.retries)),
                                 task.args.version_key)
      [] task.op = "reveal_weights" ->
            [uids |-> list(task.args.uids), weights |-> list(task.args.weights),
             salt |-> List(Append(task.args.salt[2], task.retries)),
             version_key |-> task.args.version_key]
      [] OTHER -> None

\* What one attempt gives the extrinsic function to submit: commit_weights
\* its commit_hash, reveal_weights list(uids), list(weights), list(salt) and
\* version_key.
Passed(task) ==
    CASE task.op = "commit_weights" -> task.commit_hash
      [] task.op = "reveal_weights" ->
            [uids |-> list(task.args.uids), weights |-> list(task.args.weights),
             salt |-> list(task.args.salt), version_key |-> task.args.version_key]
      [] OTHER -> None

\* One attempt: the extrinsic function composes the call and submits it
\* through sign_and_send_extrinsic, or raises before anything is submitted.
W_Try(t) ==
    /\ tasks[t].pc = "try"
    /\ \/ /\ tasks' = [tasks EXCEPT ![t] =
                         [@ EXCEPT !.pc = "await", !.attempts = @ + 1,
                                   !.sent = @ \cup {Kind(tasks[t])},
                                   !.passed = Append(@, Passed(tasks[t]))]]
          /\ pool' = [pool EXCEPT !.pending = @ \cup {Kind(tasks[t])}]
       \/ /\ \E e \in TransportErrors :
                tasks' = [tasks EXCEPT ![t] =
                            [Excepted(@, e) EXCEPT !.attempts = @ + 1,
                                   !.passed = Append(@, Passed(tasks[t]))]]
          /\ UNCHANGED pool
    /\ UNCHANGED <<head, last, subnet>>
    /\ WUnchanged

\* The submission resolves: submit_extrinsic returns its receipt or raises,
\* and the attempt ends with what sign_and_send_extrinsic makes of it.
W_Resolve(t) ==
    /\ tasks[t].pc = "await"
    /\ \E sub \in {o \in SubmitOutcomes : o.error # "Invalid Transaction"} :
        LET task == tasks[t]
            r == sign_and_send_extrinsic(task.wait_for_inclusion, FALSE, sub)
            waited == ~NoWait(task.wait_for_inclusion, FALSE)
        IN  /\ tasks' = [tasks EXCEPT ![t] =
                           IF r.kind = "raise" THEN Excepted(@, r.exc)
                           ELSE Returned(@, r)]
            /\ IF sub.kind = "return" /\ waited /\ sub.success
               THEN Included(Kind(task))
               ELSE IF sub.kind = "raise" \/ (waited /\ ~sub.success)
               THEN /\ pool' = [pool EXCEPT !.pending = @ \ {Kind(task)}]
                    /\ UNCHANGED subnet
               ELSE UNCHANGED <<pool, subnet>>
    /\ UNCHANGED <<head, last>>
    /\ WUnchanged

\* The caller takes the result of the call.
W_TakeResult(t) ==
    /\ tasks[t].pc = "done"
    /\ tasks' = [tasks EXCEPT ![t] = NoTask]
    /\ UNCHANGED <<head, last, subnet, pool>>
    /\ WUnchanged

\* The chain includes an extrinsic that nobody waits for.
ChainInclude ==
    /\ \E k \in pool.pending :
        /\ \A t \in DOMAIN tasks : ~(tasks[t].pc = "await" /\ Kind(tasks[t]) = k)
        /\ Included(k)
    /\ UNCHANGED <<head, last, tasks>>
    /\ WUnchanged

\* The chain produces its next block.
W_NewBlock ==
    /\ head < MaxBlock
    /\ head' = head + 1
    /\ UNCHANGED <<last, subnet, tasks, pool>>
    /\ WUnchanged

\* The subnet's owner switches CommitRevealWeightsEnabled.
ToggleCommitReveal ==
    /\ Truthy(subnet.exists)
    /\ subnet' = [subnet EXCEPT !.commit_reveal = Bool(~Truthy(@))]
    /\ UNCHANGED <<head, last, tasks, pool>>
    /\ WUnchanged

\* The subnet is dissolved.
Dissolve ==
    /\ Truthy(subnet.exists)
    /\ subnet' = [subnet EXCEPT !.exists = Bool(FALSE)]
    /\ UNCHANGED <<head, last, tasks, pool>>
    /\ WUnchanged

\* The storage a run starts from: the subnet exists, the hotkey is registered
\* on it or not, commit-reveal is enabled or not.
InitialSubnets ==
    {[GenesisState EXCEPT !.uid = u, !.commit_reveal = Bool(cr)] :
        u \in {None, Num(0)}, cr \in BOOLEAN}

InitTasks(T) ==
    /\ head = 0
    /\ chain = [n \in 0..MaxBlock |-> GenesisState]
    /\ last = None
    /\ call = [op |-> "idle", addresses |-> {}, block |-> None, block_hash |-> None,
               reuse_block |-> FALSE]
    /\ ret = Return(None)
    /\ rpcs = <<>>
    /\ snd = NoSend
    /\ io = <<>>
    /\ subnet \in InitialSubnets
    /\ tasks = [t \in T |-> NoTask]
    /\ pool = NoPool
    /\ cache = NoCache

NextWeights ==
    \/ \E t \in DOMAIN tasks : W_Call(t)
    \/ \E t \in DOMAIN tasks : SW_Uid(t)
    \/ \E t \in DOMAIN tasks : SW_Enabled(t)
    \/ \E t \in DOMAIN tasks : W_Cond(t)
    \/ \E t \in DOMAIN tasks : W_Try(t)
    \/ \E t \in DOMAIN tasks : W_Resolve(t)
    \/ \E t \in DOMAIN tasks : W_TakeResult(t)
    \/ ChainInclude
    \/ W_NewBlock
    \/ ToggleCommitReveal
    \/ Dissolve

\* One task calling the weight operations one after the other.
InitWeights == InitTasks({1})
SpecWeights == InitWeights /\ [][NextWeights]_vars

\* ---- SpecRetry: one call at a time; the chain only produces blocks and
\* includes what the call waits for

NextRetry ==
    \/ \E t \in DOMAIN tasks : R_Call(t)
    \/ \E t \in DOMAIN tasks : SW_Uid(t)
    \/ \E t \in DOMAIN tasks : SW_Enabled(t)
    \/ \E t \in DOMAIN tasks : W_Cond(t)
    \/ \E t \in DOMAIN tasks : W_Try(t)
    \/ \E t \in DOMAIN tasks : W_Resolve(t)
    \/ \E t \in DOMAIN tasks : W_TakeResult(t)
    \/ W_NewBlock

\* The event loop runs a call that is ready, and the transport answers every
\* submission (with a receipt or an exception).
FairRetry ==
    WF_vars(\E t \in DOMAIN tasks :
                SW_Uid(t) \/ SW_Enabled(t) \/ W_Cond(t) \/ W_Try(t) \/ W_Resolve(t))

InitRetry == InitTasks({1})
SpecRetry == InitRetry /\ [][NextRetry]_vars /\ FairRetry

\* ------------- SpecConcurrent: two tasks of one event loop, one hotkey

\* A task calls set_weights or commit_weights with one attempt allowed.
C_Call(t) ==
    /\ tasks[t].pc = "idle"
    /\ \E op \in {"set_weights", "commit_weights"}, wi \in BOOLEAN :
       \E a \in ArgsOf(op, {ListArgs}) :
        tasks' = [tasks EXCEPT ![t] =
                    [NoTask EXCEPT !.op = op, !.wait_for_inclusion = wi,
                                   !.max_retries = 1,
                                   !.args = a, !.commit_hash = CommitHash(op, a),
                                   !.pc = IF op = "set_weights" THEN "uid" ELSE "cond",
                                   !.message = IF op = "set_weights" THEN NoMessage
                                               ELSE NoAttempt]]
    /\ UNCHANGED <<head, last, subnet, pool>>
    /\ WUnchanged

\* The tasks interleave at their awaits: each step below runs between two.
NextConcurrent ==
    \/ \E t \in DOMAIN tasks : C_Call(t)
    \/ \E t \in DOMAIN tasks : SW_Uid(t)
    \/ \E t \in DOMAIN tasks : SW_Enabled(t)
    \/ \E t \in DOMAIN tasks : W_Cond(t)
    \/ \E t \in DOMAIN tasks : W_Try(t)
    \/ \E t \in DOMAIN tasks : W_Resolve(t)
    \/ \E t \in DOMAIN tasks : W_TakeResult(t)
    \/ ChainInclude
    \/ W_NewBlock

InitConcurrent == InitTasks({1, 2})
SpecConcurrent == InitConcurrent /\ [][NextConcurrent]_vars

\* ------------------------------------------- Balance (utils/balance.py)

\* Largest |rao| of the Balance operands of the arithmetic.
MaxRao == 3

\* The float m / 10^e, a decimal fraction.
Float(m, e) == <<"float", m, e>>

\* A Balance object: its rao attribute (the unit is a label only).
BalanceOf(rao) == <<"Balance", rao>>

RECURSIVE Pow10(_)
Pow10(n) == IF n = 0 THEN 1 ELSE 10 * Pow10(n - 1)

\* int(p / q) of Python for q > 0: toward zero.
Trunc(p, q) == IF p >= 0 THEN p \div q ELSE -((-p) \div q)

\* int(amount * pow(10, 9)) of a float amount.
TaoToRao(amount) ==
    IF amount[3] <= 9
    THEN amount[2] * Pow10(9 - amount[3])
    ELSE Trunc(amount[2], Pow10(amount[3] - 9))

\* Balance.__init__ taking every number as rao.
Balance_AllRao(balance) ==
    CASE balance[1] = "int" -> Return(BalanceOf(balance[2]))
      [] balance[1] = "float" -> Return(BalanceOf(Trunc(balance[2], Pow10(balance[3]))))
      [] OTHER -> Raise("TypeError")

\* Balance.__init__
Balance(balance) ==
    CASE balance[1] = "int" -> Return(BalanceOf(balance[2]))
      [] balance[1] = "float" -> Return(BalanceOf(TaoToRao(balance)))
      [] OTHER -> Raise("TypeError")

\* Balance.from_rao(amount): Balance(amount).set_unit(netuid)
from_rao(amount) == Balance(amount)

\* Balance.from_tao(amount): Balance(int(amount * pow(10, 9))).set_unit(netuid)
from_tao(amount) == Balance(Num(TaoToRao(amount)))

\* Balance.__eq__, __ne__, __gt__, __lt__, __le__, __ge__ with a Balance or
\* None on the right.
Balance_eq(self, other) == IF other = None THEN FALSE ELSE self[2] = other[2]
Balance_ne(self, other) == ~Balance_eq(self, other)
Balance_gt(self, other) == self[2] > other[2]
Balance_lt(self, other) == self[2] < other[2]
Balance_le(self, other) == Balance_lt(self, other) \/ Balance_eq(self, other)
Balance_ge(self, other) == Balance_gt(self, other) \/ Balance_eq(self, other)

\* Balance.__neg__, __abs__
Balance_neg(self) == from_rao(Num(-self[2])).val
Balance_abs(self) == from_rao(Num(IF self[2] < 0 THEN -self[2] ELSE self[2])).val

\* Balance.__add__ of two Balances
Balance_add(self, other) == from_rao(Num(self[2] + other[2])).val

\* Balance.__sub__: self + -other
Balance_sub(self, other) == Balance_add(self, Balance_neg(other))

\* ---------------------------------------- AsyncSubtensor.get_transfer_fee

\* int(2e7): the fee assumed when none can be asked for.
FallbackFee == 20000000

\* str(n): the decimal digits of n.
Str(n) == <<"digits", n>>

\* What substrate.compose_call and substrate.get_payment_info can answer.
ComposeOutcomes == {"ok", "raise"}
PaymentOutcomes == {Return(Num(0)), Return(Num(125000)), Raise("SubstrateRequestException"),
                    Raise("ConnectionClosed")}

\* AsyncSubtensor.get_transfer_fee without the try around get_payment_info.
get_transfer_fee_NoCatch(c, value, compose, payment) ==
    LET v == CASE value[1] = "float" -> from_tao(value).val
               [] value[1] = "int" -> from_rao(value).val
               [] OTHER -> value
    IN  IF v[1] = "Balance"
        THEN LET c1 == Rpc(c, "compose_call",
                           <<"Balances", "transfer_allow_death", Str(v[2])>>)
             IN  IF compose = "raise" THEN Out(c1, Raise("SubstrateRequestException"))
                 ELSE LET c2 == Rpc(c1, "payment_queryInfo", None)
                      IN  IF payment.kind = "raise" THEN Out(c2, payment)
                          ELSE Out(c2, Return(from_rao(payment.val).val))
        ELSE Out(c, Return(from_rao(Num(FallbackFee)).val))

\* AsyncSubtensor.get_transfer_fee
get_transfer_fee(c, value, compose, payment) ==
    LET v == CASE value[1] = "float" -> from_tao(value).val
               [] value[1] = "int" -> from_rao(value).val
               [] OTHER -> value
    IN  IF v[1] = "Balance"
        THEN LET c1 == Rpc(c, "compose_call",
                           <<"Balances", "transfer_allow_death", Str(v[2])>>)
             IN  IF compose = "raise" THEN Out(c1, Raise("SubstrateRequestException"))
                 ELSE LET c2 == Rpc(c1, "payment_queryInfo", None)
                          payment_info == IF payment.kind = "raise"
                                          THEN Num(FallbackFee) ELSE payment.val
                      IN  Out(c2, Return(from_rao(payment_info).val))
        ELSE Out(c, Return(from_rao(Num(FallbackFee)).val))

\* ------------- SpecBalance: Balance and the fee estimate, applied to inputs

\* Floats in tao: tenths of a tao, and tenths of a rao (10^-10 tao).
Floats == {Float(m, e) : m \in {-15, -7, 0, 7, 15}, e \in {1, 10}}

\* Constructor arguments: int, float, and what is neither.
BalanceArgs == {Num(n) : n \in -MaxRao..MaxRao} \cup Floats \cup {None, Text(<<"1">>)}

Balances == {BalanceOf(n) : n \in -MaxRao..MaxRao}

\* The value argument of get_transfer_fee.
ValueArgs == {Float(15, 1), Float(7, 10), Num(0), Num(15), BalanceOf(MaxRao), None,
              Text(<<"1">>)}

\* An expression evaluated by an idle caller: its operands and its outcome.
Evaluated(op, x, y, o) ==
    /\ Idle
    /\ call' = [op |-> op, x |-> x, y |-> y]
    /\ ret' = o
    /\ UNCHANGED <<head, chain, last, rpcs, snd, io, subnet, tasks, pool, cache>>

Do_Balance ==
    \E balance \in BalanceArgs : Evaluated("Balance", balance, None, Balance(balance))

Do_from_rao ==
    \E b \in Balances : Evaluated("from_rao", b, None, from_rao(Num(b[2])))

Do_neg ==
    \E b \in Balances : Evaluated("neg", b, None, Return(Balance_neg(b)))

Do_abs ==
    \E b \in Balances : Evaluated("abs", b, None, Return(Balance_abs(b)))

Do_add ==
    \E a \in Balances, b \in Balances : Evaluated("add", a, b, Return(Balance_add(a, b)))

Do_sub ==
    \E a \in Balances, b \in Balances : Evaluated("sub", a, b, Return(Balance_sub(a, b)))

\* (a - b) + b
Do_sub_add ==
    \E a \in Balances, b \in Balances :
        Evaluated("sub_add", a, b, Return(Balance_add(Balance_sub(a, b), b)))

\* a < b, a == b, a > b, a <= b, a >= b, a != b
Do_compare ==
    \E a \in Balances, b \in Balances :
        Evaluated("compare", a, b,
                  Return(<<Balance_lt(a, b), Balance_eq(a, b), Balance_gt(a, b),
                           Balance_le(a, b), Balance_ge(a, b), Balance_ne(a, b)>>))

\* One call of get_transfer_fee; rpcs holds what it composed and asked.
Do_get_transfer_fee ==
    \E value \in ValueArgs, compose \in ComposeOutcomes, payment \in PaymentOutcomes :
        \E o \in {get_transfer_fee(Here("null"), value, compose, payment)} :
            /\ Idle
            /\ call' = [op |-> "get_transfer_fee", x |-> value,
                        y |-> <<compose, payment>>]
            /\ ret' = o.ret
            /\ rpcs' = o.ctx.rpcs
            /\ UNCHANGED <<head, chain, last, snd, io, subnet, tasks, pool, cache>>

NextBalance ==
    \/ Do_Balance
    \/ Do_from_rao
    \/ Do_neg
    \/ Do_abs
    \/ Do_add
    \/ Do_sub
    \/ Do_sub_add
    \/ Do_compare
    \/ Do_get_transfer_fee
    \/ TakeResult

InitBalance == InitBlock
SpecBalance == InitBalance /\ [][NextBalance]_vars

\* --------------------------------------------- stake: the chain as it is read

\* Largest stake, in rao, a hotkey holds for the wallet's coldkey.
MaxStake == 3

Hotkeys == {"hk1", "hk2"}
\* None where an address is expected.
NoAddress == ""
\* The account id an Owner entry decodes to when the hotkey has no owner.
ZeroAccount == "5C4hrfjw9DjXZTzV3MwzrrAr9P1MJhSrvWGWqi1eSuyUpnhM"

\* What a staking call meets: whether the wallet's coldkey unlocks, the Stake of
\* the wallet's coldkey on each hotkey, the Owner of each hotkey,
\* NominatorMinRequiredStake, TxRateLimit, and what compose_call and
\* submit_extrinsic will do for a call on each hotkey.
StakeEnvs ==
    [unlock : BOOLEAN,
     Stake : [Hotkeys -> {0, MaxStake}],
     Owner : {[h \in Hotkeys |-> IF h = "hk1" THEN o ELSE "a2"] :
                 o \in {WalletColdkey, "a2", ZeroAccount}},
     NominatorMinRequiredStake : {2},
     TxRateLimit : {1},
     compose : {"ok", "raise"},
     submit : {[h \in Hotkeys |-> IF h = "hk1" THEN s ELSE Receipt(TRUE, "")] :
                 s \in {Receipt(TRUE, ""), Receipt(FALSE, "SubtensorModule.Error"),
                        Failure("SubstrateRequestException", "Invalid Transaction"),
                        Failure("ConnectionClosed", "")}}]

\* A call in progress that also sees the staking storage.
StakeCtx(h, c, l, e) ==
    [head |-> h, chain |-> c, last |-> l, rpcs |-> <<>>, hexnum |-> "null", env |-> e]

\* substrate.query of a SubtensorModule storage function of the staking storage.
substrate_query_stake(c, value, block_hash, reuse_block_hash) ==
    Await(substrate_resolve(c, block_hash, reuse_block_hash), LAMBDA r :
        Out(Rpc(r.ctx, "state_getStorage", r.ret.val), Return(value)))

\* AsyncSubtensor.get_stake_for_coldkey_and_hotkey
get_stake_for_coldkey_and_hotkey(c, hotkey_ss58, coldkey_ss58, block, block_hash, reuse_block) ==
    Await(determine_block_hash(c, block, block_hash, reuse_block), LAMBDA r :
        IF r.ret.kind = "raise" THEN r
        ELSE Await(substrate_query_stake(r.ctx,
                       IF coldkey_ss58 = WalletColdkey
                       THEN Num(c.env.Stake[hotkey_ss58]) ELSE None,
                       r.ret.val, reuse_block), LAMBDA q :
                Out(q.ctx, from_rao(IF Truthy(q.ret.val) THEN q.ret.val ELSE Num(0)))))

\* AsyncSubtensor.does_hotkey_exist
does_hotkey_exist(c, hotkey_ss58, block, block_hash, reuse_block) ==
    Await(determine_block_hash(c, block, block_hash, reuse_block), LAMBDA r :
        IF r.ret.kind = "raise" THEN r
        ELSE Await(substrate_query_stake(r.ctx, c.env.Owner[hotkey_ss58],
                                         r.ret.val, reuse_block), LAMBDA q :
                Out(q.ctx, Return(Bool(q.ret.val # ZeroAccount)))))

\* AsyncSubtensor.get_hotkey_owner: the owner's address, None when the hotkey
\* does not exist.
get_hotkey_owner(c, hotkey_ss58, block, block_hash, reuse_block) ==
    Await(determine_block_hash(c, block, block_hash, reuse_block), LAMBDA r :
        IF r.ret.kind = "raise" THEN r
        ELSE Await(substrate_query_stake(r.ctx, c.env.Owner[hotkey_ss58],
                                         r.ret.val, reuse_block), LAMBDA q :
                Await(does_hotkey_exist(q.ctx, hotkey_ss58, None, r.ret.val, FALSE),
                      LAMBDA x :
                    IF x.ret.kind = "raise" THEN x
                    ELSE Out(x.ctx, Return(IF Truthy(x.ret.val)
                                           THEN q.ret.val ELSE NoAddress)))))

\* AsyncSubtensor.get_minimum_required_stake
get_minimum_required_stake(c) ==
    Await(substrate_query_stake(c, Num(c.env.NominatorMinRequiredStake), None, FALSE),
          LAMBDA q : Out(q.ctx, from_rao(q.ret.val)))

\* AsyncSubtensor.tx_rate_limit
tx_rate_limit(c) ==
    Await(determine_block_hash(c, None, None, FALSE), LAMBDA r :
        substrate_query_stake(r.ctx, Num(c.env.TxRateLimit), r.ret.val, FALSE))

\* obj[key] of Python: a Balance is not subscriptable.
GetItem(obj, key) ==
    IF obj[1] = "dict" THEN Return(obj[2][key]) ELSE Raise("TypeError")

\* --------------------------- extrinsics/asyncio/unstaking.py: remove_stake

\* A coroutine object that was created and not awaited.
Coroutine(name) == <<"coroutine", name>>

\* _check_threshold_amount: False when 0 < stake_balance < the minimum.
check_threshold_amount(c, stake_balance) ==
    Await(get_minimum_required_stake(c), LAMBDA m :
        Out(m.ctx, Return(Bool(~(/\ Balance_gt(m.ret.val, stake_balance)
                                 /\ stake_balance[2] > 0)))))

\* __do_remove_stake_single: composes remove_stake and sends it through
\* sign_and_send_extrinsic; StakeError when the extrinsic failed.
do_remove_stake_single(c, hotkey_ss58, amount, wait_for_inclusion, wait_for_finalization) ==
    IF ~c.env.unlock THEN Out(c, Return(Bool(FALSE)))
    ELSE LET c1 == Rpc(c, "compose_call", <<"remove_stake", hotkey_ss58, amount[2]>>)
         IN  IF c.env.compose = "raise"
             THEN Out(c1, Raise("SubstrateRequestException"))
             ELSE LET c2 == Rpc(c1, "submit_extrinsic",
                                <<"remove_stake", hotkey_ss58, amount[2]>>)
                      r == sign_and_send_extrinsic(wait_for_inclusion,
                                                   wait_for_finalization,
                                                   c.env.submit[hotkey_ss58])
                  IN  IF r.kind = "raise" THEN Out(c2, Raise(r.exc))
                      ELSE IF r.success THEN Out(c2, Return(Bool(TRUE)))
                      ELSE Out(c2, Raise("StakeError"))

\* The amount of one hotkey as a Balance: everything when None, a float as tao.
UnstakingBalance(amount, old_stake) ==
    IF amount = None THEN old_stake
    ELSE IF amount[1] # "Balance" THEN from_tao(amount).val
    ELSE amount

\* unstake_extrinsic from "Check enough to unstake" on.
unstake_extrinsic_Checked(c, hotkey_ss58, amount, old_stake, own_hotkey, wait_for_inclusion, wait_for_finalization) ==
    LET unstaking_balance == UnstakingBalance(amount, old_stake)
        stake_on_uid == old_stake
    IN  IF Balance_gt(unstaking_balance, stake_on_uid) THEN Out(c, Return(Bool(FALSE)))
        ELSE Await(IF own_hotkey THEN Out(c, Return(Bool(TRUE)))
                   ELSE check_threshold_amount(c, Balance_sub(stake_on_uid,
                                                              unstaking_balance)),
                   LAMBDA t :
                \* staking_response = __do_remove_stake_single(...): not awaited
                LET staking_response == Coroutine("__do_remove_stake_single")
                IN  IF staking_response = Bool(TRUE)
                    THEN IF NoWait(wait_for_inclusion, wait_for_finalization)
                         THEN Out(t.ctx, Return(Bool(TRUE)))
                         ELSE Await(substrate_get_chain_head(t.ctx), LAMBDA g :
                                 Out(g.ctx, Return(Bool(TRUE))))
                    ELSE Out(t.ctx, Return(Bool(FALSE))))

\* unstake_extrinsic
unstake_extrinsic(c, hotkey_ss58, amount, wait_for_inclusion, wait_for_finalization) ==
    IF ~c.env.unlock THEN Out(c, Return(Bool(FALSE)))
    ELSE LET hotkey == IF hotkey_ss58 = NoAddress THEN WalletHotkey ELSE hotkey_ss58
         IN  Await(substrate_get_chain_head(c), LAMBDA h :
             Await(get_balance(h.ctx, WalletColdkey, None, h.ret.val, FALSE), LAMBDA b :
             Await(get_stake_for_coldkey_and_hotkey(b.ctx, hotkey, WalletColdkey,
                                                    None, h.ret.val, FALSE), LAMBDA s :
             Await(get_hotkey_owner(s.ctx, hotkey, None, h.ret.val, FALSE), LAMBDA o :
                 \* old_balance = old_balance_[wallet.coldkeypub.ss58_address]
                 IF GetItem(b.ret.val, WalletColdkey).kind = "raise"
                 THEN Out(o.ctx, GetItem(b.ret.val, WalletColdkey))
                 ELSE unstake_extrinsic_Checked(o.ctx, hotkey, amount, s.ret.val,
                                                o.ret.val = WalletColdkey,
                                                wait_for_inclusion,
                                                wait_for_finalization)))))

\* sum(amount.tao for amount in amounts), counted in rao.
RECURSIVE SumRao(_)
SumRao(amounts) ==
    IF amounts = <<>> THEN 0 ELSE Head(amounts)[2] + SumRao(Tail(amounts))

\* The for loop of unstake_multiple_extrinsic from hotkey idx on, and the
\* return after it. a holds the hotkeys, the amounts, the stakes and owners
\* read before the loop, and the wait flags.
RECURSIVE unstake_multiple_loop(_, _, _, _)
unstake_multiple_loop(c, a, idx, successful_unstakes) ==
    IF idx > Len(a.hotkey_ss58s)
    THEN Out(c, Return(Bool(successful_unstakes # 0)))
    ELSE LET hotkey_ss58 == a.hotkey_ss58s[idx]
             old_stake == a.old_stakes[idx]
             own_hotkey == a.own_hotkeys[idx]
             unstaking_balance == UnstakingBalance(a.amounts[idx], old_stake)
             stake_on_uid == old_stake
         IN  IF Balance_gt(unstaking_balance, stake_on_uid)
             THEN unstake_multiple_loop(c, a, idx + 1, successful_unstakes)
             ELSE
             Await(IF own_hotkey THEN Out(c, Return(Bool(TRUE)))
                   ELSE check_threshold_amount(c, Balance_sub(stake_on_uid,
                                                              unstaking_balance)),
                   LAMBDA t :
             Await(do_remove_stake_single(
                       t.ctx, hotkey_ss58,
                       IF ~own_hotkey /\ ~Truthy(t.ret.val)
                       THEN stake_on_uid ELSE unstaking_balance,
                       a.wait_for_inclusion, a.wait_for_finalization),
                   LAMBDA r :
                 IF r.ret.kind = "raise"
                 THEN IF r.ret.exc \in {"NotRegisteredError", "StakeError"}
                      THEN unstake_multiple_loop(r.ctx, a, idx + 1, successful_unstakes)
                      ELSE r
                 ELSE IF r.ret.val # Bool(TRUE)
                 THEN unstake_multiple_loop(r.ctx, a, idx + 1, successful_unstakes)
                 ELSE
                 Await(IF idx < Len(a.hotkey_ss58s)
                       THEN tx_rate_limit(r.ctx) ELSE Out(r.ctx, Return(None)),
                       LAMBDA x :
                 Await(IF NoWait(a.wait_for_inclusion, a.wait_for_finalization)
                       THEN Out(x.ctx, Return(None))
                       ELSE substrate_get_chain_head(x.ctx),
                       LAMBDA g :
                     unstake_multiple_loop(g.ctx, a, idx + 1,
                                           successful_unstakes + 1)))))

\* The reads one gather makes for every hotkey of the list, in order.
RECURSIVE GatherStakes(_, _, _, _)
GatherStakes(c, hotkey_ss58s, block_hash, acc) ==
    IF hotkey_ss58s = <<>> THEN Out(c, Return(acc))
    ELSE Await(get_stake_for_coldkey_and_hotkey(c, Head(hotkey_ss58s), WalletColdkey,
                                                None, block_hash, FALSE), LAMBDA s :
            GatherStakes(s.ctx, Tail(hotkey_ss58s), block_hash, Append(acc, s.ret.val)))

RECURSIVE GatherOwners(_, _, _, _)
GatherOwners(c, hotkey_ss58s, block_hash, acc) ==
    IF hotkey_ss58s = <<>> THEN Out(c, Return(acc))
    ELSE Await(get_hotkey_owner(c, Head(hotkey_ss58s), None, block_hash, FALSE),
               LAMBDA o :
            GatherOwners(o.ctx, Tail(hotkey_ss58s), block_hash,
                         Append(acc, o.ret.val = WalletColdkey)))

\* unstake_multiple_extrinsic; hotkey_ss58s is a list of str.
unstake_multiple_extrinsic(c, hotkey_ss58s, amounts, wait_for_inclusion, wait_for_finalization) ==
    IF Len(hotkey_ss58s) = 0 THEN Out(c, Return(Bool(TRUE)))
    ELSE IF amounts # None /\ Len(amounts) # Len(hotkey_ss58s)
    THEN Out(c, Raise("ValueError"))
    ELSE IF amounts # None
            /\ \E i \in DOMAIN amounts : amounts[i][1] \notin {"Balance", "float"}
    THEN Out(c, Raise("TypeError"))
    ELSE LET converted ==
                 IF amounts = None THEN [i \in DOMAIN hotkey_ss58s |-> None]
                 ELSE [i \in DOMAIN amounts |->
                          IF amounts[i][1] = "float"
                          THEN from_tao(amounts[i]).val ELSE amounts[i]]
         IN  IF amounts # None /\ SumRao(converted) = 0
             THEN Out(c, Return(Bool(TRUE)))
             ELSE IF ~c.env.unlock THEN Out(c, Return(Bool(FALSE)))
             ELSE
             Await(substrate_get_chain_head(c), LAMBDA h :
             Await(get_balance(h.ctx, WalletColdkey, None, h.ret.val, FALSE), LAMBDA b :
             Await(GatherStakes(b.ctx, hotkey_ss58s, h.ret.val, <<>>), LAMBDA s :
             Await(GatherOwners(s.ctx, hotkey_ss58s, h.ret.val, <<>>), LAMBDA o :
                 \* old_balance = old_balance_[wallet.coldkeypub.ss58_address]
                 IF GetItem(b.ret.val, WalletColdkey).kind = "raise"
                 THEN Out(o.ctx, GetItem(b.ret.val, WalletColdkey))
                 ELSE unstake_multiple_loop(
                          o.ctx,
                          [hotkey_ss58s |-> hotkey_ss58s, amounts |-> converted,
                           old_stakes |-> s.ret.val, own_hotkeys |-> o.ret.val,
                           wait_for_inclusion |-> wait_for_inclusion,
                           wait_for_finalization |-> wait_for_finalization],
                          1, 0)))))

\* ------------------------------ extrinsics/asyncex/move_stake.py

OriginNetuid == 1
DestinationNetuid == 2

\* AsyncSubtensor.get_stake(coldkey_ss58, hotkey_ss58, netuid, block): the
\* stake of the coldkey on the hotkey in the subnet.
get_stake(c, coldkey_ss58, hotkey_ss58, netuid, block) ==
    Await(determine_block_hash(c, block, None, FALSE), LAMBDA r :
        IF r.ret.kind = "raise" THEN r
        ELSE Await(substrate_query_stake(r.ctx,
                       IF coldkey_ss58 = WalletColdkey /\ netuid = OriginNetuid
                       THEN Num(c.env.Stake[hotkey_ss58]) ELSE Num(0),
                       r.ret.val, FALSE), LAMBDA q :
                Out(q.ctx, from_rao(q.ret.val))))

\* The three functions with the ownership check left out.
stake_call_NoOwnerCheck(c, call_function, hotkey_ss58, destination_coldkey_ss58, destination_hotkey, amount, wait_for_inclusion, wait_for_finalization) ==
    Await(get_hotkey_owner(c, hotkey_ss58, None, None, FALSE), LAMBDA o :
    Await(get_stake(o.ctx, WalletColdkey, hotkey_ss58, OriginNetuid, None), LAMBDA s :
    Await(get_stake(s.ctx, destination_coldkey_ss58, destination_hotkey,
                    DestinationNetuid, None), LAMBDA d :
        IF Balance_lt(s.ret.val, amount) THEN Out(d.ctx, Return(Bool(FALSE)))
        ELSE LET c1 == Rpc(d.ctx, "compose_call", <<call_function, hotkey_ss58, amount[2]>>)
                 c2 == Rpc(c1, "submit_extrinsic", <<call_function, hotkey_ss58, amount[2]>>)
                 r == sign_and_send_extrinsic(wait_for_inclusion, wait_for_finalization,
                                              c.env.submit[hotkey_ss58])
             IN  IF c.env.compose = "raise" THEN Out(c1, Return(Bool(FALSE)))
                 ELSE Out(c2, Return(Bool(r.kind = "return" /\ r.success))))))

\* transfer_stake_extrinsic, swap_stake_extrinsic and move_stake_extrinsic:
\* the same body around a different call_function; the stake in the
\* destination is read and only logged.
stake_call(c, call_function, hotkey_ss58, destination_coldkey_ss58, destination_hotkey, amount, wait_for_inclusion, wait_for_finalization) ==
    Await(get_hotkey_owner(c, hotkey_ss58, None, None, FALSE), LAMBDA o :
        IF o.ret.val # WalletColdkey THEN Out(o.ctx, Return(Bool(FALSE)))
        ELSE
        Await(get_stake(o.ctx, WalletColdkey, hotkey_ss58, OriginNetuid, None), LAMBDA s :
        Await(get_stake(s.ctx, destination_coldkey_ss58, destination_hotkey,
                        DestinationNetuid, None), LAMBDA d :
            IF Balance_lt(s.ret.val, amount) THEN Out(d.ctx, Return(Bool(FALSE)))
            ELSE
            \* try: ... except Exception: return False
            LET c1 == Rpc(d.ctx, "compose_call",
                          <<call_function, hotkey_ss58, amount[2]>>)
                c2 == Rpc(c1, "submit_extrinsic",
                          <<call_function, hotkey_ss58, amount[2]>>)
                r == sign_and_send_extrinsic(wait_for_inclusion, wait_for_finalization,
                                             c.env.submit[hotkey_ss58])
            IN  IF c.env.compose = "raise" THEN Out(c1, Return(Bool(FALSE)))
                ELSE IF r.kind = "raise" THEN Out(c2, Return(Bool(FALSE)))
                ELSE IF ~r.success THEN Out(c2, Return(Bool(FALSE)))
                ELSE IF NoWait(wait_for_inclusion, wait_for_finalization)
                THEN Out(c2, Return(Bool(TRUE)))
                ELSE
                Await(get_current_block(c2), LAMBDA b :
                Await(get_stake(b.ctx, WalletColdkey, hotkey_ss58, OriginNetuid,
                                b.ret.val), LAMBDA s2 :
                Await(get_stake(s2.ctx, destination_coldkey_ss58, destination_hotkey,
                                DestinationNetuid, b.ret.val), LAMBDA d2 :
                    Out(d2.ctx, Return(Bool(d2.ret.kind = "return")))))))))

transfer_stake_extrinsic(c, destination_coldkey_ss58, hotkey_ss58, amount, wait_for_inclusion, wait_for_finalization) ==
    stake_call(c, "transfer_stake", hotkey_ss58, destination_coldkey_ss58, hotkey_ss58,
               amount, wait_for_inclusion, wait_for_finalization)

swap_stake_extrinsic(c, hotkey_ss58, amount, wait_for_inclusion, wait_for_finalization) ==
    stake_call(c, "swap_stake", hotkey_ss58, WalletColdkey, hotkey_ss58,
               amount, wait_for_inclusion, wait_for_finalization)

move_stake_extrinsic(c, origin_hotkey, destination_hotkey, amount, wait_for_inclusion, wait_for_finalization) ==
    stake_call(c, "move_stake", origin_hotkey, WalletColdkey, destination_hotkey,
               amount, wait_for_inclusion, wait_for_finalization)

\* ------------------------ SpecStake: one staking call against one chain

\* Amounts a caller passes: nothing, a Balance in rao, a float in tao (tenths
\* of a rao), and an int, which the list of unstake_multiple rejects.
StakeAmounts ==
    {BalanceOf(n) : n \in 0..(MaxStake + 1)} \cup {Float(20, 10)}

HotkeyLists == {<<>>, <<"hk1">>, <<"hk1", "hk2">>, <<"hk2", "hk1">>}
AmountLists ==
    {None, <<BalanceOf(0)>>, <<BalanceOf(1)>>, <<Num(1)>>,
     <<BalanceOf(0), BalanceOf(0)>>, <<BalanceOf(1), BalanceOf(MaxStake)>>,
     <<BalanceOf(MaxStake + 1), BalanceOf(1)>>, <<Float(20, 10), BalanceOf(2)>>,
     <<BalanceOf(1), BalanceOf(-1)>>}

\* A staking call made by an idle client against the environment e.
StakeCalled(op, e, hotkeys, amounts, wi, wf, o) ==
    /\ Idle
    /\ call' = [op |-> op, env |-> e, hotkeys |-> hotkeys, amounts |-> amounts,
                wait_for_inclusion |-> wi, wait_for_finalization |-> wf]
    /\ ret' = o.ret
    /\ rpcs' = o.ctx.rpcs
    /\ last' = o.ctx.last
    /\ UNCHANGED <<head, chain, snd, io, subnet, tasks, pool, cache>>

HereStake(e) == StakeCtx(head, chain, last, e)

Do_unstake_extrinsic ==
    /\ Idle
    /\ \E e \in StakeEnvs, hotkey_ss58 \in Hotkeys \cup {NoAddress},
       amount \in StakeAmounts \cup {None}, wi \in BOOLEAN, wf \in BOOLEAN :
        StakeCalled("unstake_extrinsic", e,
                    <<IF hotkey_ss58 = NoAddress THEN WalletHotkey ELSE hotkey_ss58>>,
                    <<amount>>, wi, wf,
                    unstake_extrinsic(HereStake(e), hotkey_ss58, amount, wi, wf))

Do_unstake_multiple_extrinsic ==
    /\ Idle
    /\ \E e \in StakeEnvs, hotkey_ss58s \in HotkeyLists, amounts \in AmountLists,
       wi \in BOOLEAN, wf \in BOOLEAN :
        StakeCalled("unstake_multiple_extrinsic", e, hotkey_ss58s, amounts, wi, wf,
                    unstake_multiple_extrinsic(HereStake(e), hotkey_ss58s, amounts,
                                               wi, wf))

Do_transfer_stake_extrinsic ==
    /\ Idle
    /\ \E e \in StakeEnvs, hotkey_ss58 \in Hotkeys, amount \in StakeAmounts \ {Float(20, 10)},
       wi \in BOOLEAN, wf \in BOOLEAN :
        StakeCalled("transfer_stake_extrinsic", e, <<hotkey_ss58>>, <<amount>>, wi, wf,
                    transfer_stake_extrinsic(HereStake(e), "a2", hotkey_ss58, amount,
                                             wi, wf))

Do_swap_stake_extrinsic ==
    /\ Idle
    /\ \E e \in StakeEnvs, hotkey_ss58 \in Hotkeys, amount \in StakeAmounts \ {Float(20, 10)},
       wi \in BOOLEAN, wf \in BOOLEAN :
        StakeCalled("swap_stake_extrinsic", e, <<hotkey_ss58>>, <<amount>>, wi, wf,
                    swap_stake_extrinsic(HereStake(e), hotkey_ss58, amount, wi, wf))

Do_move_stake_extrinsic ==
    /\ Idle
    /\ \E e \in StakeEnvs, origin_hotkey \in Hotkeys, amount \in StakeAmounts \ {Float(20, 10)},
       wi \in BOOLEAN, wf \in BOOLEAN :
        StakeCalled("move_stake_extrinsic", e, <<origin_hotkey>>, <<amount>>, wi, wf,
                    move_stake_extrinsic(HereStake(e), origin_hotkey, "hk2", amount,
                                         wi, wf))

NextStake ==
    \/ Do_unstake_extrinsic
    \/ Do_unstake_multiple_extrinsic
    \/ Do_transfer_stake_extrinsic
    \/ Do_swap_stake_extrinsic
    \/ Do_move_stake_extrinsic
    \/ TakeResult

InitStake == InitBlock
SpecStake == InitStake /\ [][NextStake]_vars

\* ------------------------------------------------------------------ claims

\* The facade reads of SpecBlock that take the triple.
TripleOps == {"get_balances", "get_total_stake_for_coldkey", "get_balance",
              "subnet_exists", "get_hyperparameter", "tempo",
              "get_uid_for_hotkey_on_subnet"}

CallTruthyCount == TruthyCount(call.block, call.block_hash, call.reuse_block)

\* C1: determine_block_hash raises ValueError whenever more than one of block,
\* block_hash and reuse_block is truthy, and returns None when all three are
\* falsy (None, 0, the empty string, False), for every combination of values.
C1_DetermineBlockHashChecks ==
    call.op = "determine_block_hash" =>
        /\ CallTruthyCount > 1 => ret = Raise("ValueError") /\ rpcs = <<>>
        /\ CallTruthyCount = 0 => ret = Return(None)

\* C1 witness: a call with two truthy references has raised.
C1_Witness ==
    /\ call.op = "determine_block_hash"
    /\ Truthy(call.block) /\ call.reuse_block /\ ~Truthy(call.block_hash)
    /\ ret.kind = "raise"

\* C2: every facade read that takes the triple rejects a call with more than
\* one truthy reference, before any RPC is issued.
C2_EveryReadRejectsAmbiguous ==
    (call.op \in TripleOps /\ CallTruthyCount > 1) =>
        (ret.kind = "raise" /\ rpcs = <<>>)

\* C3 as stated: with exactly one truthy argument, a block_hash is returned
\* unchanged without an RPC, a block number is resolved to its hash through
\* get_block_hash, and reuse_block returns the transport's last_block_hash.
C3_ReuseReturnsLastBlockHash ==
    (call.op = "determine_block_hash" /\ CallTruthyCount = 1) =>
        /\ Truthy(call.block_hash) => ret = Return(call.block_hash) /\ rpcs = <<>>
        /\ Truthy(call.block) =>
              /\ ret = Return(Hash(call.block[2]))
              /\ rpcs = << <<"chain_getBlockHash", call.block>> >>
        /\ call.reuse_block => ret = Return(last)

\* C3 amended: as C3, except that reuse_block = True alone returns None and
\* issues no RPC (last_block_hash is left to the query that follows).
C3_ReuseReturnsNone ==
    (call.op = "determine_block_hash" /\ CallTruthyCount = 1) =>
        /\ Truthy(call.block_hash) => ret = Return(call.block_hash) /\ rpcs = <<>>
        /\ Truthy(call.block) =>
              /\ ret = Return(Hash(call.block[2]))
              /\ rpcs = << <<"chain_getBlockHash", call.block>> >>
        /\ call.reuse_block => ret = Return(None) /\ rpcs = <<>>

\* C3 witness: reuse_block alone, with a last_block_hash to reuse, gave None.
C3_Witness ==
    /\ call.op = "determine_block_hash"
    /\ call.reuse_block /\ CallTruthyCount = 1
    /\ last # None
    /\ ret = Return(None)

SendDone == snd.pc = "done"
SendNoWait == ~snd.wait_for_inclusion /\ ~snd.wait_for_finalization

\* C4: a sign_with outside {coldkey, hotkey, coldkeypub} fails before any I/O:
\* nothing is created, signed or submitted, and the call ends in the
\* validation error.
C4_InvalidSignWithNoIO ==
    (snd.pc # "idle" /\ snd.sign_with \notin {"coldkey", "hotkey", "coldkeypub"}) =>
        /\ io = <<>>
        /\ snd.pc \in {"validate", "done"}
        /\ snd.pc = "done" => snd.result = Throw("AttributeError")

\* C4 witness: a call with sign_with = "invalid" has ended.
C4_Witness ==
    /\ SendDone /\ snd.sign_with = "invalid"
    /\ snd.result.kind = "raise" /\ io = <<>>

\* C5: with neither wait flag set the helper returns (True, "") right after
\* the submission and never asks the receipt for success or error; with a
\* flag set it returns (True, "") exactly when the receipt reports success.
C5_WaitFlagsDecideInspection ==
    SendDone =>
        /\ (SendNoWait /\ snd.response.kind = "return") =>
              /\ snd.result = Tuple(TRUE, NoMessage)
              /\ \A i \in 1..Len(io) : io[i] \notin {"is_success", "error_message"}
              /\ io[Len(io)] = "submit_extrinsic"
        /\ ~SendNoWait =>
              (snd.result = Tuple(TRUE, NoMessage)
                  <=> (snd.response.kind = "return" /\ snd.response.success))

\* C5 witness: nothing awaited, the receipt reports failure, the helper has
\* returned (True, "").
C5_Witness ==
    /\ SendDone /\ SendNoWait
    /\ snd.response.kind = "return" /\ ~snd.response.success
    /\ snd.result.success

\* C6: a failed extrinsic is the value (False, message), not an exception: a
\* receipt that reports failure (when one is awaited) and a
\* SubstrateRequestException raised by the submission both give
\* (False, format_error_message(error)).
C6_FailureIsAValue ==
    (/\ SendDone
     /\ \/ snd.response.kind = "return" /\ ~snd.response.success /\ ~SendNoWait
        \/ snd.response.kind = "raise" /\ snd.response.exc = "SubstrateRequestException")
    => snd.result = Tuple(FALSE, format_error_message(snd.response.error))

\* C6 witness: the submission raised SubstrateRequestException and the helper
\* returned (False, message).
C6_Witness ==
    /\ SendDone
    /\ snd.response.kind = "raise" /\ snd.response.exc = "SubstrateRequestException"
    /\ snd.result.kind = "return" /\ ~snd.result.success

\* The kinds of extrinsic that commit weights.
CommitKinds == {"commit_weights", "commit_crv3_weights"}

\* A task whose submission has not resolved yet.
InFlight(t) == tasks[t].pc = "await"

\* C8: a reveal_weights submission is made only once the commit that was
\* submitted for the hotkey has been confirmed in a block.
C8_RevealFollowsCommitInBlock ==
    \A t \in DOMAIN tasks :
        (/\ tasks[t].op = "reveal_weights"
         /\ InFlight(t)
         /\ "commit_weights" \in pool.pending) => pool.commit_inblock

\* C9: of the calls running on the client for the one netuid and hotkey, at
\* most one has a commit submitted and unresolved.
C9_OneCommitInFlight ==
    Cardinality({t \in DOMAIN tasks :
                    InFlight(t) /\ Kind(tasks[t]) \in CommitKinds}) <= 1

\* The path set_weights takes for the storage it reads.
PathOf(s) ==
    IF Truthy(s.exists) /\ s.commit_reveal = Bool(TRUE) THEN "cr" ELSE "legacy"

\* What one call of set_weights has submitted fits the path it took.
SetWeightsSubmitsOneKind ==
    \A t \in DOMAIN tasks :
        tasks[t].op = "set_weights" =>
            /\ tasks[t].branch = "none" => tasks[t].sent = {}
            /\ tasks[t].branch = "cr" => tasks[t].sent \subseteq {"commit_crv3_weights"}
            /\ tasks[t].branch = "legacy" => tasks[t].sent \subseteq {"set_weights"}

\* The path is the one CommitRevealWeightsEnabled gives when it is read, and a
\* hotkey without uid ends the call.
SetWeightsChoosesPath ==
    \A t \in DOMAIN tasks :
        /\ (tasks[t].pc = "enabled" /\ tasks'[t].pc # "enabled")
               => tasks'[t].branch = PathOf(subnet)
        /\ (tasks[t].pc = "uid" /\ tasks'[t].pc # "uid" /\ subnet.uid = None)
               => /\ tasks'[t].pc = "done"
                  /\ tasks'[t].result = Tuple(FALSE, NotRegistered)
                  /\ tasks'[t].sent = {}
                  /\ pool' = pool

\* C10: set_weights takes the commit-reveal path exactly when
\* CommitRevealWeightsEnabled reads true and the legacy path otherwise (also for
\* a subnet that does not exist); one call submits extrinsics of its path's
\* kind only; a hotkey without uid gives (False, message) and no submission.
C10_SetWeightsPath ==
    []SetWeightsSubmitsOneKind /\ [][SetWeightsChoosesPath]_vars

\* A call on the commit-reveal path has submitted, the switch has been turned
\* off meanwhile, and the call still submitted commit-reveal extrinsics only.
C10_Witness ==
    \E t \in DOMAIN tasks :
        /\ tasks[t].op = "set_weights"
        /\ tasks[t].branch = "cr"
        /\ tasks[t].sent = {"commit_crv3_weights"}
        /\ tasks[t].retries > 0
        /\ subnet.commit_reveal = Bool(FALSE)


\* No call makes more attempts than max_retries.
AttemptsBounded ==
    \A t \in DOMAIN tasks : tasks[t].attempts <= tasks[t].max_retries

\* A call with max_retries = 0 makes no attempt, and the loop it reaches
\* returns (False, "No attempt made...").
ZeroRetriesNoAttempt ==
    \A t \in DOMAIN tasks :
        (tasks[t].pc = "done" /\ tasks[t].max_retries = 0) =>
            /\ tasks[t].attempts = 0
            /\ tasks[t].sent = {}
            /\ (/\ tasks[t].result.kind = "return"
                /\ tasks[t].op = "set_weights" => tasks[t].branch # "none")
                   => tasks[t].result = Tuple(FALSE, NoAttempt)

\* Once an attempt of a call has succeeded the call makes no other.
NoAttemptAfterSuccess ==
    \A t \in DOMAIN tasks :
        tasks[t].success => tasks'[t].attempts <= tasks[t].attempts

TooSoon ==
    /\ Truthy(subnet.exists)
    /\ ~(head - subnet.last_update[2] > subnet.rate_limit[2])

\* C12: set_weights starts an attempt only when its loop condition has just
\* found blocks_since_last_update > weights_rate_limit; when the condition
\* finds it too soon the call returns at once, without another attempt, what
\* it has: success = False unless an attempt had succeeded.
C12_RateLimitGatesAttempts ==
    [][\A t \in DOMAIN tasks :
          (tasks[t].op = "set_weights" /\ tasks[t].pc = "cond") =>
              /\ tasks'[t].pc = "try" => (Truthy(subnet.exists) /\ ~TooSoon)
              /\ (TooSoon /\ tasks'[t].pc # "cond") =>
                    /\ tasks'[t].pc = "done"
                    /\ tasks'[t].attempts = tasks[t].attempts
                    /\ tasks'[t].result = Tuple(tasks[t].success, tasks[t].message)
                    /\ tasks[t].attempts = 0 => ~tasks'[t].result.success]_vars

\* A call that was allowed attempts gave up after a failed one because it had
\* become too soon.
C12_Witness ==
    \E t \in DOMAIN tasks :
        /\ tasks[t].op = "set_weights"
        /\ tasks[t].pc = "done"
        /\ tasks[t].attempts = 1
        /\ tasks[t].retries < tasks[t].max_retries
        /\ tasks[t].result.kind = "return"
        /\ ~tasks[t].result.success
        /\ TooSoon

\* C13: in set_weights (both branches), commit_weights and reveal_weights an
\* exception raised by an attempt is caught by the loop and never reaches the
\* caller.
C13_AttemptExceptionsCaught ==
    \A t \in DOMAIN tasks :
        ~(/\ tasks[t].pc = "done"
          /\ tasks[t].attempts > 0
          /\ tasks[t].result.kind = "raise"
          /\ tasks[t].result.exc \in TransportErrors)

\* What block n stores for the read op of the given addresses.
StoredAt(op, addresses, n) ==
    CASE op = "get_balances" ->
            OrZero(Dict([a \in addresses |-> chain[n].free[a]]))
      [] op = "get_total_stake_for_coldkey" ->
            OrZero(Dict([a \in addresses |-> chain[n].stake[a]]))
      [] op = "get_balance" ->
            OrZero(Dict([a \in addresses |-> chain[n].free[a]]))[2][CHOOSE a \in addresses : TRUE]
      [] op = "subnet_exists" -> chain[n].exists
      [] OTHER -> chain[n].uid

\* C14: a read given only a block number n returns what block n stores.
C14_BlockNumberReadsThatBlock ==
    (/\ call.op \in {"get_balances", "get_total_stake_for_coldkey", "get_balance",
                     "subnet_exists", "get_uid_for_hotkey_on_subnet"}
     /\ Truthy(call.block)
     /\ call.block_hash = None
     /\ ~call.reuse_block
     /\ ret.kind = "return")
        => ret.val = StoredAt(call.op, call.addresses, call.block[2])

\* C15: get_block_hash(n), of either facade, returns the hash of block n for
\* every n given, 0 included, and the hash of the current head when n is
\* omitted, also after the chain has advanced.
C15_BlockHashOfGivenBlockOrHead ==
    (/\ call.op \in {"get_block_hash", "Subtensor.get_block_hash"}
     /\ ret.kind = "return")
        => ret.val = IF call.block = None THEN Hash(head) ELSE Hash(call.block[2])

\* C16: the cache of block hashes holds at most 128 entries and each one maps
\* a block number to the hash of that block.
C16_CacheMapsNumbersToHashes ==
    /\ Len(cache) <= maxsize
    /\ \A i \in 1..Len(cache) :
          /\ cache[i].key[1] = "int"
          /\ cache[i].val = Hash(cache[i].key[2])

\* What the async method of the same name returns for the arguments of a call
\* of the synchronous facade, on the same chain state.
AsyncOf(c) ==
    CASE c.op = "Subtensor.get_block_hash" ->
            get_block_hash(Here("null"), c.block).ret
      [] c.op = "Subtensor.get_total_stake_for_coldkey" ->
            get_total_stake_for_coldkey(Here("null"), c.addresses, c.block, None, FALSE).ret
      [] OTHER ->
            is_hotkey_registered(Here("null"),
                                 IF c.netuid = Missing THEN None ELSE c.netuid,
                                 c.block, None, FALSE).ret

\* C17: a method of the synchronous Subtensor returns exactly what the async
\* method of the same name returns for the same arguments on the same chain
\* state.
C17_SyncForwardsToAsync ==
    [][(/\ Idle
        /\ call'.op \in {"Subtensor.get_block_hash",
                         "Subtensor.get_total_stake_for_coldkey",
                         "Subtensor.is_hotkey_registered"})
          => ret' = AsyncOf(call')]_vars

\* The network or endpoint the documented order of precedence selects.
DocumentedChoice(network, config) ==
    IF network # None THEN network
    ELSE IF config.is_set_chain_endpoint THEN config.chain_endpoint
    ELSE IF config.is_set_network THEN config.network
    ELSE IF Truthy(config.chain_endpoint) THEN config.chain_endpoint
    ELSE IF Truthy(config.network) THEN config.network
    ELSE None

\* C18: setup_config resolves the first of: the network passed, the config's
\* chain_endpoint when set, the config's network when set, the default
\* chain_endpoint, the default network.
C18_SetupConfigPrecedence ==
    call.op = "setup_config" =>
        LET e == determine_chain_endpoint_and_network(
                     DocumentedChoice(call.network, call.config))
        IN  ret.val = <<get_formatted_ws_endpoint_url(e[2]), e[1]>>

\* t starts with the characters p.
StartsWith(t, p) == Len(t[2]) >= Len(p) /\ SubSeq(t[2], 1, Len(p)) = p

\* The URL listed for a network, and the host substring that names it.
ListedUrl(n) ==
    CASE n = "finney" -> Text(wss \o <<"entrypoint-finney.opentensor.ai", ":443">>)
      [] n = "test" -> Text(wss \o <<"test.finney.opentensor.ai", ":443">>)
      [] n = "archive" -> Text(wss \o <<"archive.chain.opentensor.ai", ":443">>)
      [] n = "local" -> Text(ws \o <<"127.0.0.1", ":9944">>)
      [] n = "subvortex" -> SUBVORTEX_ENTRYPOINT

KnownHosts ==
    {<<"entrypoint-finney.opentensor.ai", "finney">>,
     <<"test.finney.opentensor.ai", "test">>,
     <<"archive.chain.opentensor.ai", "archive">>,
     <<"subvortex", "subvortex">>,
     <<"127.0.0.1", "local">>,
     <<"localhost", "local">>}

\* The string is the name of one of the four networks.
IsName(t) == \E n \in {"finney", "test", "archive", "local"} : t = Text(<<n>>)

EndpointResolved ==
    (call.op = "determine_chain_endpoint_and_network" /\ call.network # None) =>
        /\ IsName(call.network) =>
              ret.val = <<call.network, ListedUrl(call.network[2][1])>>
        /\ (~IsName(call.network) /\ \E h \in KnownHosts : Contains(call.network, h[1])) =>
              \E h \in KnownHosts :
                  /\ Contains(call.network, h[1])
                  /\ ret.val = <<Text(<<h[2]>>), ListedUrl(h[2])>>
        /\ (~IsName(call.network) /\ \A h \in KnownHosts : ~Contains(call.network, h[1])) =>
              ret.val = <<Text(<<"unknown">>), call.network>>

UrlNormalized ==
    call.op = "get_formatted_ws_endpoint_url" =>
        /\ call.network = None => ret.val = None
        /\ call.network # None =>
              /\ (StartsWith(call.network, ws) \/ StartsWith(call.network, wss))
                    => ret.val = call.network
              /\ ~(StartsWith(call.network, ws) \/ StartsWith(call.network, wss))
                    => ret.val = Text(ws \o call.network[2])
        /\ get_formatted_ws_endpoint_url(ret.val) = ret.val

\* C19: a network's name resolves to its listed URL, a string containing a
\* known host to that network's name and URL, any other string to
\* ("unknown", the string); normalization prepends ws:// exactly to an
\* endpoint that starts with neither ws:// nor wss://, maps None to None and
\* is idempotent.
C19_EndpointResolution == EndpointResolved /\ UrlNormalized

\* An endpoint with a scheme, a known host and a port resolved to its network.
C19_Witness ==
    /\ call.op = "determine_chain_endpoint_and_network"
    /\ call.network = Text(wss \o <<"localhost", ":9944">>)
    /\ ret.val = <<Text(<<"local">>), Text(ws \o <<"127.0.0.1", ":9944">>)>>

\* C20: blocks_since_last_update is the current block number minus
\* LastUpdate of the uid on a subnet that exists, and None, not an exception,
\* on one that does not.
C20_BlocksSinceLastUpdate ==
    call.op = "blocks_since_last_update" =>
        ret = IF Truthy(chain[head].exists)
              THEN Return(Num(head - chain[head].last_update[2]))
              ELSE Return(None)

\* The head is block 2 and the uid last updated at block 1.
C20_Witness ==
    /\ call.op = "blocks_since_last_update"
    /\ head = 2
    /\ chain[head].last_update = Num(1)
    /\ ret = Return(Num(1))

\* The block the last RPC of the call was made at.
QueriedBlock == BlockOf(rpcs[Len(rpcs)][2])

\* data.free of the account at block n, 0 rao for an address without account.
FreeAt(n, a) == IF chain[n].free[a] = None THEN Num(0) ELSE chain[n].free[a]

\* C21: get_balance and get_balances do not fail on an address that has no
\* account: get_balance returns 0 rao for it, get_balances one entry per
\* address queried, data.free of the account or 0 rao where there is none.
C21_AbsentAccountIsZero ==
    call.op \in {"get_balance", "get_balances"} =>
        /\ TruthyCount(call.block, call.block_hash, call.reuse_block) <= 1
              => ret.kind = "return"
        /\ ret.kind = "return" =>
              ret.val = IF call.op = "get_balances"
                        THEN Dict([a \in call.addresses |-> FreeAt(QueriedBlock, a)])
                        ELSE FreeAt(QueriedBlock, CHOOSE a \in call.addresses : TRUE)

\* get_balance of an address without account returned 0 rao.
C21_Witness ==
    /\ call.op = "get_balance"
    /\ ret = Return(Num(0))
    /\ chain[QueriedBlock].free["a1"] = None
    /\ call.addresses = {"a1"}

\* The rao of the value argument: a float in tao, an int in rao.
ValueRao(value) ==
    CASE value[1] = "float" -> TaoToRao(value)
      [] OTHER -> value[2]

\* C22: get_transfer_fee takes a float value as tao and an int as rao when it
\* composes Balances.transfer_allow_death, returns the partialFee of the
\* payment info as rao, and returns 20_000_000 rao when the payment info
\* request raises or when value is neither Balance, float nor int.
C22_TransferFee ==
    call.op = "get_transfer_fee" =>
        IF call.x[1] \in {"float", "int", "Balance"}
        THEN /\ rpcs[1] = <<"compose_call",
                            <<"Balances", "transfer_allow_death", Str(ValueRao(call.x))>>>>
             /\ call.x = Float(15, 1) => rpcs[1][2][3] = Str(1500000000)
             /\ call.y[1] = "ok" =>
                   ret = IF call.y[2].kind = "return"
                         THEN Return(BalanceOf(call.y[2].val[2]))
                         ELSE Return(BalanceOf(20000000))
        ELSE rpcs = <<>> /\ ret = Return(BalanceOf(20000000))

\* The fee of 1.5 tao was asked for and the request failed.
C22_Witness ==
    /\ call.op = "get_transfer_fee"
    /\ call.x = Float(15, 1)
    /\ call.y = <<"ok", Raise("ConnectionClosed")>>
    /\ rpcs[1][2][3] = Str(1500000000)
    /\ ret = Return(BalanceOf(20000000))

Abs(n) == IF n < 0 THEN -n ELSE n

\* r is m / 10^e tao in rao, truncated toward zero.
IsTruncatedRao(r, m, e) ==
    IF e <= 9
    THEN r = m * Pow10(9 - e)
    ELSE /\ Abs(r) * Pow10(e - 9) <= Abs(m)
         /\ Abs(m) < (Abs(r) + 1) * Pow10(e - 9)
         /\ r * m >= 0

\* C23: Balance(int) holds the int as rao, Balance(float) the float as tao
\* truncated to rao, anything else is a TypeError; from_rao(b.rao).rao is
\* b.rao; +, -, unary -, abs and the comparisons are those of the rao
\* integers, so (a - b) + b == a and exactly one of <, ==, > holds.
C23_BalanceIsRao ==
    /\ call.op = "Balance" =>
          CASE call.x[1] = "int" -> ret = Return(BalanceOf(call.x[2]))
            [] call.x[1] = "float" ->
                  /\ ret.kind = "return"
                  /\ ret.val[1] = "Balance"
                  /\ IsTruncatedRao(ret.val[2], call.x[2], call.x[3])
            [] OTHER -> ret = Raise("TypeError")
    /\ call.op = "from_rao" => ret = Return(call.x)
    /\ call.op = "neg" => ret = Return(BalanceOf(0 - call.x[2]))
    /\ call.op = "abs" => ret = Return(BalanceOf(Abs(call.x[2])))
    /\ call.op = "add" => ret = Return(BalanceOf(call.x[2] + call.y[2]))
    /\ call.op = "sub" => ret = Return(BalanceOf(call.x[2] - call.y[2]))
    /\ call.op = "sub_add" => Balance_eq(ret.val, call.x)
    /\ call.op = "compare" =>
          /\ ret.val[1] = (call.x[2] < call.y[2])
          /\ ret.val[2] = (call.x[2] = call.y[2])
          /\ ret.val[3] = (call.x[2] > call.y[2])
          /\ ret.val[4] = (call.x[2] <= call.y[2])
          /\ ret.val[5] = (call.x[2] >= call.y[2])
          /\ ret.val[6] = (call.x[2] # call.y[2])
          /\ B2N(ret.val[1]) + B2N(ret.val[2]) + B2N(ret.val[3]) = 1

\* Balance(-0.0000000015) is -1 rao: truncated, not rounded down.
C23_Witness ==
    /\ call.op = "Balance"
    /\ call.x = Float(-15, 10)
    /\ ret = Return(BalanceOf(-1))

\* The storage reads of the call: the blocks state_getStorage was asked at.
StorageReads == {i \in DOMAIN rpcs : rpcs[i][1] = "state_getStorage"}

\* C26: get_hyperparameter called with a block or a block hash asks
\* NetworksAdded and the parameter at that one block: the result is the
\* parameter stored there when the subnet exists there, and None, with the
\* parameter not read, when it does not (for a call that returns).
C26_ExistenceCheckedAtReadBlock ==
    (/\ call.op = "get_hyperparameter"
     /\ TruthyCount(call.block, call.block_hash, call.reuse_block) = 1
     /\ ~call.reuse_block
     /\ ret.kind = "return") =>
        LET n == IF Truthy(call.block_hash) THEN BlockOf(call.block_hash)
                 ELSE call.block[2]
        IN  /\ ret = IF Truthy(chain[n].exists) THEN Return(chain[n].tempo)
                     ELSE Return(None)
            /\ \A i \in StorageReads : rpcs[i][2] = Hash(n)
            /\ ~Truthy(chain[n].exists) => Cardinality(StorageReads) = 1

\* The extrinsics a finished staking call has submitted.
Submitted == {rpcs[i][2] : i \in {j \in DOMAIN rpcs : rpcs[j][1] = "submit_extrinsic"}}
Composed == {rpcs[i][2] : i \in {j \in DOMAIN rpcs : rpcs[j][1] = "compose_call"}}

MoveOps == {"transfer_stake_extrinsic", "swap_stake_extrinsic", "move_stake_extrinsic"}

\* The origin hotkey is owned by the wallet's coldkey / holds the amount.
OwnerCheckPasses == call.env.Owner[call.hotkeys[1]] = WalletColdkey
StakeCheckPasses == call.env.Stake[call.hotkeys[1]] >= call.amounts[1][2]

\* The rao asked for from a hotkey holding stake: everything when the amount
\* is None, a float as tao.
RequestedRao(amount, stake) ==
    IF amount = None THEN stake
    ELSE IF amount[1] = "float" THEN TaoToRao(amount)
    ELSE amount[2]

\* The i-th hotkey of the call is one remove_stake is to be sent for: the
\* wallet unlocks, the stake covers the amount and the call composes.
Attemptable(i) ==
    /\ call.env.unlock
    /\ call.env.compose = "ok"
    /\ RequestedRao(IF call.amounts = None THEN None ELSE call.amounts[i],
                    call.env.Stake[call.hotkeys[i]]) <= call.env.Stake[call.hotkeys[i]]

\* What the chain answers to the remove_stake of the i-th hotkey.
OutcomeOf(i) == call.env.submit[call.hotkeys[i]]

\* The remove_stake of the i-th hotkey goes through: it is submitted without
\* waiting, or its receipt reports success.
Succeeds(i) ==
    /\ Attemptable(i)
    /\ OutcomeOf(i).kind = "return"
    /\ \/ NoWait(call.wait_for_inclusion, call.wait_for_finalization)
       \/ OutcomeOf(i).success

\* C24: unstake_extrinsic returns True when the remove_stake extrinsic was
\* included or finalized successfully or was submitted with no wait flag set,
\* False when the extrinsic failed, and True only after a remove_stake was
\* submitted.
C24_UnstakeResult ==
    call.op = "unstake_extrinsic" =>
        /\ Succeeds(1) => ret = Return(Bool(TRUE))
        /\ (/\ Attemptable(1)
            /\ ~NoWait(call.wait_for_inclusion, call.wait_for_finalization)
            /\ OutcomeOf(1).kind = "return"
            /\ ~OutcomeOf(1).success) => ret = Return(Bool(FALSE))
        /\ ret = Return(Bool(TRUE)) => Submitted # {}

\* The arguments of unstake_multiple_extrinsic pass its validation.
ValidLists ==
    \/ call.amounts = None
    \/ /\ Len(call.amounts) = Len(call.hotkeys)
       /\ \A i \in DOMAIN call.amounts : call.amounts[i][1] \in {"Balance", "float"}

AllZero ==
    /\ call.amounts # None
    /\ \A i \in DOMAIN call.amounts : RequestedRao(call.amounts[i], 0) = 0

\* No submission of the call raises something the loop does not catch.
NothingPropagates ==
    \A h \in Hotkeys : call.env.submit[h].exc \in {"", "SubstrateRequestException"}

\* C25: unstake_multiple_extrinsic rejects lists of different lengths before
\* any I/O; it returns True exactly when the list is empty, all amounts are
\* zero or a hotkey was unstaked successfully; and a hotkey that fails or is
\* skipped does not keep the later hotkeys from being attempted.
C25_UnstakeMultipleResult ==
    call.op = "unstake_multiple_extrinsic" =>
        /\ (/\ call.hotkeys # <<>>
            /\ call.amounts # None
            /\ Len(call.amounts) # Len(call.hotkeys)) => ret.kind = "raise" /\ rpcs = <<>>
        /\ (ValidLists /\ NothingPropagates) =>
              /\ ret = Return(Bool(\/ call.hotkeys = <<>>
                                   \/ AllZero
                                   \/ \E i \in DOMAIN call.hotkeys : Succeeds(i)))
              /\ (call.hotkeys # <<>> /\ ~AllZero) =>
                    \A i \in DOMAIN call.hotkeys :
                        Attemptable(i) => \E s \in Submitted : s[2] = call.hotkeys[i]

UnstakeOps == {"unstake_extrinsic", "unstake_multiple_extrinsic"}

\* C28: a remove_stake submitted by unstake_extrinsic or
\* unstake_multiple_extrinsic never asks for more than the stake read for the
\* hotkey at the start of the call (a larger request submits nothing); with
\* amount None it is submitted for the whole stake read; and for a hotkey not
\* owned by the wallet's coldkey it never leaves a remaining stake strictly
\* between 0 and the minimum required stake.
C28_UnstakeAmount ==
    (call.op \in UnstakeOps /\ ValidLists /\ call.hotkeys # <<>> /\ ~AllZero) =>
        /\ \A s \in Submitted :
              /\ s[3] <= call.env.Stake[s[2]]
              /\ call.env.Owner[s[2]] # WalletColdkey =>
                    ~(/\ call.env.Stake[s[2]] - s[3] > 0
                      /\ call.env.Stake[s[2]] - s[3] < call.env.NominatorMinRequiredStake)
        /\ \A i \in DOMAIN call.hotkeys :
              /\ ~Attemptable(i) => ~\E s \in Submitted : s[2] = call.hotkeys[i]
              /\ (/\ Attemptable(i)
                  /\ call.amounts = None
                  /\ call.env.Stake[call.hotkeys[i]] > 0
                  /\ \A j \in 1..(i - 1) : OutcomeOf(j).exc \in {"", "SubstrateRequestException"})
                    => <<"remove_stake", call.hotkeys[i], call.env.Stake[call.hotkeys[i]]>>
                          \in Submitted

HashOfReveal(p) ==
    generate_weight_hash(WalletHotkey, Netuid, p.uids, p.weights, p.salt,
                         p.version_key)

\* The hash a commit made with the arguments a has to carry.
CommittedHash(a) ==
    <<"weight_hash", WalletHotkey, Netuid, a.uids[2], a.weights[2], a.salt[2],
      a.version_key>>

\* C29: every attempt of a commit_weights call is given the one hash of
\* (hotkey address, netuid, uids, weights, salt, version_key); every attempt
\* of a reveal_weights call is given the caller's uids, weights, salt and
\* version_key, whose hash is the hash a commit with these arguments carries.
C29_CommitHashOnce ==
    \A t \in DOMAIN tasks :
        LET task == tasks[t]
        IN  /\ Len(task.passed) = task.attempts
            /\ task.op = "commit_weights" =>
                  \A i \in DOMAIN task.passed :
                      task.passed[i] = CommittedHash(task.args)
            /\ task.op = "reveal_weights" =>
                  \A i \in DOMAIN task.passed :
                      /\ task.passed[i].uids[2] = task.args.uids[2]
                      /\ task.passed[i].weights[2] = task.args.weights[2]
                      /\ task.passed[i].salt[2] = task.args.salt[2]
                      /\ task.passed[i].version_key = task.args.version_key
                      /\ HashOfReveal(task.passed[i]) = CommittedHash(task.args)

\* A commit_weights call given NumPy arrays has made two attempts.
C29_Witness ==
    \E t \in DOMAIN tasks :
        /\ tasks[t].op = "commit_weights"
        /\ tasks[t].args.uids = NDArray(<<0, 1>>)
        /\ tasks[t].pc = "done"
        /\ Len(tasks[t].passed) = 2
        /\ tasks[t].passed[1] = tasks[t].passed[2]

\* The block the node answers the call's i-th request at: the block of the
\* hash sent with it, the head when none was sent.
AnsweredAt(i) == IF rpcs[i][2] = None THEN head ELSE BlockOf(rpcs[i][2])

\* C30: get_neuron_for_pubkey_and_subnet called with a block or a block hash
\* makes the uid lookup and the neuron fetch at that one block: it returns the
\* neuron that held the hotkey's uid there, and the null neuron when the
\* hotkey has no uid there.
C30_NeuronSnapshot ==
    (/\ call.op = "get_neuron_for_pubkey_and_subnet"
     /\ TruthyCount(call.block, call.block_hash, call.reuse_block) = 1
     /\ ~call.reuse_block
     /\ ret.kind = "return") =>
        LET n == IF Truthy(call.block_hash) THEN BlockOf(call.block_hash)
                 ELSE call.block[2]
        IN  /\ ret.val = IF chain[n].uid = None THEN NullNeuron
                         ELSE Neuron(chain[n].uid, chain[n].last_update)
            /\ \A i \in DOMAIN rpcs :
                   rpcs[i][1] \in {"state_getStorage", "neuronInfo_getNeuron"}
                       => AnsweredAt(i) = n

====
